---- MODULE Spec2Model ----
(***************************************************************************)
(* ws-actual: the reconciliation/import engine (ActualClient), the         *)
(* transformer (transformTransaction) and the deterministic imported_id.   *)
(*                                                                         *)
(* Strings are TLA+ strings, so JSON.stringify and the "_mirror" suffix    *)
(* are modelled by concatenation.  A JavaScript number is a record         *)
(* [nan, v]: v is the integer value, nan marks NaN.  A missing             *)
(* (undefined) property is the value None, null is Null.                   *)
(***************************************************************************)
EXTENDS Integers, Sequences, FiniteSets, TLC

\* ------------------------------------------------------------------ bounds
MaxTx == 2        \* longest batch passed to ActualClient.importTransactions
MaxRuns == 2      \* invocations of importTransactions on the same batch

\* ------------------------------------------------------------- state
VARIABLES
  connected,      \* ActualClient.connected
  transactions,   \* the argument of the running (or last) importTransactions
  pc,             \* "idle", "loop" (between batch calls), "await" (a batch
                  \* call is pending), "done" (returned), "rejected" (thrown),
                  \* "crashed"
  byAccount,      \* transactionsByAccount
  nextAcct,       \* how many entries of transactionsByAccount the loop has taken
  inflight,       \* the sink batch calls issued and not yet settled
  results,        \* results.imported / updated / failed / summary
  ledger,         \* the sink: account id -> records
  runs,           \* invocations of importTransactions so far
  callLog,        \* the batch calls of this invocation, with their outcome
  interrupted,    \* a run of this batch was cut between two batch calls

  hx, hy,         \* two canonical transactions whose ids are compared
  hid,            \* << generateImportedId(hx), generateImportedId(hy) >> once computed
  raw,            \* a raw transaction record handed to the transformer
  out,            \* the transformer's output for raw and the options it was
                  \* called with, once computed

  wsAccountName,  \* the account name handed to resolveAccount
  config,         \* the configuration handed to resolveAccount
  resolved,       \* what resolveAccount returned, once called

  wsTransactions, \* the raw records of an import run, after shouldIncludeTransaction
  options,        \* the options of the run: dryRun, verbose, account
  opc,            \* where the orchestrator is: "start", "connect", "accounts",
                  \* "table", "import", "adjust", "done"
  regular,        \* regularTransactionsByAccount
  oi,             \* how many entries the running loop has taken
  transformedGroups,
  validatedGroups,
  console,        \* what was written to the console
  submitted,      \* the batches handed to client.importTransactions
  sinkCalls,      \* the batch calls the sink received
  oledger,        \* the sink behind the orchestrator's client
  importResults,  \* the counts of importResults
  client,         \* the orchestrator's client: "null", "connected", "shutdown"
  effects,        \* the calls that reach the ledger or the configuration file
  browserContext, \* the context the scrape kept open: "undefined", "open", "closed"
  orchOutcome,    \* "" while the run goes on, then "returned" or "threw"

  transaction,    \* a canonical transaction handed to validateTransaction
  validation,     \* what validateTransaction returned, once called

  clientConfig,   \* ActualClient.config: verbose
  cpc,            \* where connect is: "idle", "try" (the try block), "recover"
                  \* (the catch block up to the second api.init), "retry"
  cstep,          \* the call connect is awaiting
  outcome,        \* "" before the call, "pending", "resolved", "rejected"
  caught,         \* the error the catch block received
  thrown,         \* the message of the error connect rejected with
  initCalls,      \* calls of api.init
  clearCalls,     \* calls of clearCache
  dataDirExists,  \* existsSync(dataDir)
  clog,           \* what connect wrote to the console

  fieldName,      \* the label of a scraped row handed to parseRow
  fieldValue,     \* its text, or null
  parsedRow,      \* what parseRow did with it, once called

  rawPair,        \* two raw transaction records of one scrape
  importedIds     \* the imported_id each of the two gets, once computed

engineVars == << connected, transactions, pc, byAccount, nextAcct, inflight,
                 results, ledger, runs, callLog, interrupted >>

idVars == << hx, hy, hid >>
transformVars == << raw, out >>
resolveVars == << wsAccountName, config, resolved >>
orchVars == << wsTransactions, options, opc, regular, oi, transformedGroups,
               validatedGroups, console, submitted, sinkCalls, oledger,
               importResults, client, effects, browserContext, orchOutcome >>
validateVars == << transaction, validation >>
connectVars == << clientConfig, cpc, cstep, outcome, caught, thrown, initCalls,
                  clearCalls, dataDirExists, clog >>
engineRest == << transactions, pc, byAccount, nextAcct, inflight, results,
                 ledger, runs, callLog, interrupted >>
parseVars == << fieldName, fieldValue, parsedRow >>
pairVars == << rawPair, importedIds >>
vars == << engineVars, idVars, transformVars, resolveVars, orchVars,
           validateVars, connectVars, parseVars,
           pairVars >>

\* what each part of the program leaves alone
exceptEngine == << idVars, transformVars, resolveVars, orchVars, validateVars,
    connectVars, parseVars,
    pairVars >>
exceptId == << engineVars, transformVars, resolveVars, orchVars, validateVars,
    connectVars, parseVars,
    pairVars >>
exceptTransform == << engineVars, idVars, resolveVars, orchVars, validateVars,
    connectVars, parseVars,
    pairVars >>
exceptResolve == << engineVars, idVars, transformVars, orchVars, validateVars,
    connectVars, parseVars,
    pairVars >>
exceptOrch == << engineVars, idVars, transformVars, resolveVars, validateVars,
    connectVars, parseVars,
    pairVars >>
exceptValidate == << engineVars, idVars, transformVars, resolveVars, orchVars,
    connectVars, parseVars,
    pairVars >>
exceptConnect == << engineRest, idVars, transformVars, resolveVars, orchVars,
                    validateVars, parseVars,
    pairVars >>
exceptParse == << engineVars, idVars, transformVars, resolveVars, orchVars,
                 validateVars, connectVars,
    pairVars >>
exceptPair == << engineVars, idVars, transformVars, resolveVars,
    orchVars, validateVars, connectVars, parseVars >>

\* ------------------------------------------------------------ JS values
None == "undefined"
Null == "null"
Num(n) == [nan |-> FALSE, v |-> n]
NaN == [nan |-> TRUE, v |-> 0]
\* unary minus of JavaScript: -NaN is NaN
Neg(x) == IF x.nan THEN NaN ELSE Num(-x.v)
\* truthiness of a string-or-missing property
Truthy(s) == s # None /\ s # Null /\ s # ""

\* -------------------------------------------------- the ledger directory
\* api.getAccounts(): the accounts of the budget
Accounts ==
  { [id |-> "acc1", name |-> "Checking"],
    [id |-> "acc2", name |-> "Savings"],
    [id |-> "acc3", name |-> "Credit"] }
\* api.getPayees(): acc3 has no transfer payee in the directory
Payees ==
  { [id |-> "payee_x", name |-> "Acme", transfer_acct |-> None],
    [id |-> "payee_t1", name |-> "Transfer : Checking", transfer_acct |-> "acc1"],
    [id |-> "payee_t2", name |-> "Transfer : Savings", transfer_acct |-> "acc2"] }
AccountIds == { a.id : a \in Accounts }

NoAccount == [id |-> None, name |-> None]
NoPayee == [id |-> None, name |-> None, transfer_acct |-> None]

\* accountMap.get(nameOrId) || null   (loadAccounts keys the map by every
\* account name and every account id)
findAccount(nameOrId) ==
  IF \E a \in Accounts : a.name = nameOrId \/ a.id = nameOrId
  THEN CHOOSE a \in Accounts : a.name = nameOrId \/ a.id = nameOrId
  ELSE NoAccount

\* transferPayeeMap.get(accountNameOrId) || null   (loadPayees keys the map
\* by transfer_acct and by the name of that account)
findTransferPayee(accountNameOrId) ==
  LET hit == { p \in Payees : p.transfer_acct # None /\
                 ( p.transfer_acct = accountNameOrId \/
                   findAccount(p.transfer_acct).name = accountNameOrId ) }
  IN IF hit = {} THEN NoPayee ELSE CHOOSE p \in hit : TRUE

\* ------------------------------------------------------- imported_id
\* one "key":value member of JSON.stringify; an undefined value drops the
\* member, null and NaN are written null
JsonStr(key, val) ==
  IF val = None THEN <<>>
  ELSE IF val = Null THEN << "\"" \o key \o "\":null" >>
  ELSE << "\"" \o key \o "\":\"" \o val \o "\"" >>
JsonNum(key, x) ==
  IF x.nan THEN << "\"" \o key \o "\":null" >>
  ELSE << "\"" \o key \o "\":" \o ToString(x.v) >>
RECURSIVE JoinComma(_)
JoinComma(parts) ==
  IF parts = <<>> THEN ""
  ELSE IF Len(parts) = 1 THEN parts[1]
  ELSE parts[1] \o "," \o JoinComma(Tail(parts))
\* a variant that leaves the notes out of the hashed members
SortedTransactionNoNotes(t) ==
  JsonStr("account", t.Account) \o JsonNum("amount", t.Amount) \o
  JsonStr("date", t.Date) \o JsonStr("payee", t.Payee)
\* the members hashed, in the fixed key order account, amount, date, notes, payee
SortedTransaction(t) ==
  JsonStr("account", t.Account) \o JsonNum("amount", t.Amount) \o
  JsonStr("date", t.Date) \o JsonStr("notes", t.Notes) \o
  JsonStr("payee", t.Payee)
JsonStringify(t) == "{" \o JoinComma(SortedTransaction(t)) \o "}"
\* createHash('sha256').update(s).digest('hex').substring(0, 16): the digest
\* is taken to be collision free and is represented by its preimage
Sha256Hex16(s) == s
\* a variant whose id changes from one invocation to the next
generateImportedIdPerRun(t) ==
  "ws_" \o Sha256Hex16(JsonStringify(t)) \o ToString(runs)
generateImportedId(t) == "ws_" \o Sha256Hex16(JsonStringify(t))

\* ------------------------------------------- canonical transactions
\* A canonical transaction as the engine receives it: the five public
\* fields, the transfer metadata (_isTransfer, _transferToAccount), the
\* injected _accountId and the optional category.
Tx(account, accountId, payee, notes, amount, isTransfer, transferTo) ==
  [ Date |-> "2024-01-15", Account |-> account, Payee |-> payee,
    Notes |-> notes, Amount |-> Num(amount), isTransfer |-> isTransfer,
    transferTo |-> transferTo, accountId |-> accountId, category |-> None ]

\* The batches are drawn from these transactions: ordinary postings (with
\* the account id injected, or resolved from the account name), transfers
\* between accounts that have transfer payees, a transfer whose target has no
\* transfer payee, a transfer of an account to itself, and a posting whose
\* account the ledger does not know, and a posting without any account.
TxDomain ==
  { Tx("Checking", "acc1", "Acme", "Purchase [t1]", -500, FALSE, None),
    Tx("Savings", None, "", "Deposit", 700, FALSE, None),
    Tx("Checking", "acc1", "Transfer", "Checking -> Savings", -500, TRUE, "acc2"),
    Tx("Savings", "acc2", "Transfer", "Savings -> Checking", -300, TRUE, "acc1"),
    Tx("Checking", None, "Transfer", "Checking -> Credit", -200, TRUE, "acc3"),
    Tx("Savings", "acc2", "Transfer", "Savings -> Savings", -100, TRUE, "acc2"),
    Tx("Nowhere", None, "Acme", "Purchase", -900, FALSE, None),
    Tx(None, None, "Acme", "Purchase", -400, FALSE, None) }

RECURSIVE SeqsUpTo(_, _)
SeqsUpTo(S, n) ==
  IF n = 0 THEN { <<>> }
  ELSE LET shorter == SeqsUpTo(S, n - 1)
       IN shorter \cup { Append(q, x) : q \in shorter, x \in S }
Batches == SeqsUpTo(TxDomain, MaxTx)

\* ------------------------------------------------ convertToImportFormat
\* transaction.Notes || ''
NotesOrEmpty(t) == IF Truthy(t.Notes) THEN t.Notes ELSE ""
\* payee_name is set only for a truthy Payee
PayeeNameOf(t) == IF Truthy(t.Payee) THEN t.Payee ELSE None

IsTransferWithTarget(t) == t.isTransfer /\ Truthy(t.transferTo)

\* a variant without the fallback: a flagged transfer never gets payee_name
convertWithoutFallback(t) ==
  LET transferPayee == findTransferPayee(t.transferTo)
  IN [ date |-> t.Date, amount |-> t.Amount,
       imported_id |-> generateImportedId(t), cleared |-> FALSE,
       account |-> IF Truthy(t.Account) THEN findAccount(t.Account).id ELSE None,
       payee |-> IF IsTransferWithTarget(t) THEN transferPayee.id ELSE None,
       payee_name |-> IF IsTransferWithTarget(t) THEN None ELSE PayeeNameOf(t),
       notes |-> NotesOrEmpty(t),
       category |-> IF Truthy(t.category) THEN t.category ELSE None ]
convertToImportFormat(t) ==
  LET account == IF Truthy(t.Account) THEN findAccount(t.Account).id ELSE None
      transferPayee == findTransferPayee(t.transferTo)
      asTransfer == IsTransferWithTarget(t) /\ transferPayee # NoPayee
  IN [ date |-> t.Date,
       amount |-> t.Amount,
       imported_id |-> generateImportedId(t),
       cleared |-> FALSE,
       account |-> account,
       payee |-> IF asTransfer THEN transferPayee.id ELSE None,
       payee_name |-> IF asTransfer THEN None ELSE PayeeNameOf(t),
       notes |-> NotesOrEmpty(t),
       category |-> IF Truthy(t.category) THEN t.category ELSE None ]

\* --------------------------------------- importTransactions: grouping
\* the account id of the primary leg: _accountId, else the id of the account
\* named by Account; ok is FALSE where the code throws
ResolveAccountId(t) ==
  IF Truthy(t.accountId) THEN [ok |-> TRUE, id |-> t.accountId, error |-> ""]
  ELSE IF ~Truthy(t.Account)
       THEN [ok |-> FALSE, id |-> None, error |-> "Account is required"]
  ELSE IF findAccount(t.Account) = NoAccount
       THEN [ok |-> FALSE, id |-> None, error |-> "Account not found"]
  ELSE [ok |-> TRUE, id |-> findAccount(t.Account).id, error |-> ""]

\* transactionsByAccount is a Map: a sequence of [key, entries] in insertion
\* order, one element per key
MapHas(map, key) == \E k \in 1..Len(map) : map[k].key = key
\* a variant that opens a new group for every record
MapPushAlwaysNew(map, key, entry) ==
  Append(map, [key |-> key, entries |-> << entry >>])
MapPush(map, key, entry) ==
  IF MapHas(map, key)
  THEN [ k \in 1..Len(map) |->
           IF map[k].key = key
           THEN [map[k] EXCEPT !.entries = Append(@, entry)]
           ELSE map[k] ]
  ELSE Append(map, [key |-> key, entries |-> << entry >>])

\* the payee of the mirror leg
MirrorPayee(t) == findTransferPayee(t.transferTo).id

\* a variant that copies the amount without negating it
mirrorTransactionSameSign(t, imp) ==
  [ date |-> t.Date, amount |-> t.Amount,
    imported_id |-> imp.imported_id \o "_mirror", cleared |-> FALSE,
    account |-> None, payee |-> MirrorPayee(t), payee_name |-> None,
    notes |-> NotesOrEmpty(t), category |-> None ]
\* the mirror wire record of a transfer whose primary record is imp
mirrorTransaction(t, imp) ==
  [ date |-> t.Date,
    amount |-> Neg(t.Amount),
    imported_id |-> imp.imported_id \o "_mirror",
    cleared |-> FALSE,
    account |-> None,
    payee |-> MirrorPayee(t),
    payee_name |-> None,
    notes |-> NotesOrEmpty(t),
    category |-> None ]

\* a variant that mirrors every flagged transfer, transfer payee or not
HasMirrorWithoutPayee(t) == IsTransferWithTarget(t)
\* the mirror leg is created only when the target's transfer payee is found
HasMirror(t) == IsTransferWithTarget(t) /\ findTransferPayee(t.transferTo) # NoPayee

\* a variant whose catch forgets the error
GroupOneForgetting(acc, t, index) ==
  LET r == ResolveAccountId(t)
      imp == convertToImportFormat(t)
      primary == [index |-> index, import |-> imp, isMirrorTransfer |-> FALSE]
  IN IF ~r.ok THEN acc ELSE [acc EXCEPT !.map = MapPush(acc.map, r.id, primary)]
\* one iteration of transactions.forEach (index is the 0-based array index)
GroupOne(acc, t, index) ==
  LET r == ResolveAccountId(t)
      imp == convertToImportFormat(t)
      primary == [index |-> index, import |-> imp, isMirrorTransfer |-> FALSE]
      mirror == [index |-> index, import |-> mirrorTransaction(t, imp),
                 isMirrorTransfer |-> TRUE]
      withPrimary == MapPush(acc.map, r.id, primary)
  IN IF ~r.ok
     THEN [acc EXCEPT !.errors = Append(@, [index |-> index, error |-> r.error])]
     ELSE IF HasMirror(t)
     THEN [acc EXCEPT !.map = MapPush(withPrimary, t.transferTo, mirror)]
     ELSE [acc EXCEPT !.map = withPrimary]

RECURSIVE GroupFrom(_, _, _)
GroupFrom(txs, i, acc) ==
  IF i > Len(txs) THEN acc
  ELSE GroupFrom(txs, i + 1, GroupOne(acc, txs[i], i - 1))
Group(txs) == GroupFrom(txs, 1, [map |-> <<>>, errors |-> <<>>])

\* ----------------------------------------------------------- the sink
\* The ledger keeps, per account id, the records imported so far; the ledger
\* id of a record is the account and its position.
LedgerId(acct, n) == acct \o "#" \o ToString(n)
ExistsIn(led, importedId) == \E k \in 1..Len(led) : led[k].imported_id = importedId
PositionIn(led, importedId) == CHOOSE k \in 1..Len(led) : led[k].imported_id = importedId

\* batchImport(accountId, records): a record whose imported_id the account
\* already holds is matched and skipped, any other record is added; a call
\* that resolves reports no per-record errors
RECURSIVE SinkImport(_, _, _, _)
SinkImport(acct, data, i, acc) ==
  IF i > Len(data) THEN acc
  ELSE IF ExistsIn(acc.led, data[i].imported_id)
  THEN SinkImport(acct, data, i + 1,
         [acc EXCEPT !.updated =
            Append(@, LedgerId(acct, PositionIn(acc.led, data[i].imported_id)))])
  ELSE SinkImport(acct, data, i + 1,
         [acc EXCEPT !.led = Append(@, data[i]),
                     !.added = Append(@, LedgerId(acct, Len(acc.led) + 1))])
batchImport(led, acct, data) ==
  SinkImport(acct, data, 1,
             [led |-> led, added |-> <<>>, updated |-> <<>>, errors |-> <<>>])

EmptyResults ==
  [ imported |-> <<>>, updated |-> <<>>, failed |-> <<>>,
    summary |-> [total |-> 0, added |-> 0, updated |-> 0, errors |-> 0] ]

SinkKeys == AccountIds

InitEngine ==
  /\ connected \in BOOLEAN
  /\ transactions = <<>>
  /\ pc = "idle"
  /\ byAccount = <<>>
  /\ nextAcct = 0
  /\ inflight = {}
  /\ results = EmptyResults
  /\ ledger = [a \in SinkKeys |-> <<>>]
  /\ runs = 0
  /\ callLog = <<>>
  /\ interrupted = FALSE

\* importTransactions up to its first await: the connected check, the empty
\* batch, the grouping forEach and the initial results
Enter(txs) ==
  LET g == Group(txs)
  IN /\ connected
     /\ transactions' = txs
     /\ runs' = runs + 1
     /\ callLog' = <<>>
     /\ nextAcct' = 0
     /\ IF Len(txs) = 0
        THEN /\ byAccount' = <<>>
             /\ results' = EmptyResults
             /\ pc' = "done"
        ELSE /\ byAccount' = g.map
             /\ results' = [ imported |-> <<>>, updated |-> <<>>,
                             failed |-> g.errors,
                             summary |-> [ total |-> Len(txs), added |-> 0,
                                           updated |-> 0,
                                           errors |-> Len(g.errors) ] ]
             /\ pc' = IF Len(g.map) = 0 THEN "done" ELSE "loop"
     /\ UNCHANGED << connected, inflight, ledger >>

\* if (!this.connected) throw new Error('Not connected to ActualBudget')
NotConnected ==
  /\ ~connected
  /\ pc' = "rejected"
  /\ UNCHANGED << connected, transactions, byAccount, nextAcct, inflight,
                  results, ledger, runs, callLog >>

\* the first invocation, on any batch
ImportCall ==
  /\ UNCHANGED exceptEngine
  /\ pc = "idle"
  /\ \E txs \in Batches : Enter(txs) \/ NotConnected
  /\ UNCHANGED interrupted

\* the import is run again on the same canonical transactions
Rerun ==
  /\ UNCHANGED exceptEngine
  /\ pc \in {"done", "crashed"}
  /\ runs < MaxRuns
  /\ Enter(transactions)
  /\ UNCHANGED interrupted

\* the loop may take the next account only when no batch call is pending
\* (the call is awaited)
CanIssueUnawaited == pc \in {"loop", "await"} /\ nextAcct < Len(byAccount)
CanIssue == pc = "loop" /\ nextAcct < Len(byAccount)

ImportData(entries) == [ k \in 1..Len(entries) |-> entries[k].import ]

\* api.importTransactions(accountId, importData) is called
BatchBegin ==
  /\ UNCHANGED exceptEngine
  /\ CanIssue
  /\ LET b == byAccount[nextAcct + 1]
     IN inflight' = inflight \cup
          { [slot |-> nextAcct + 1, accountId |-> b.key,
             importData |-> ImportData(b.entries)] }
  /\ nextAcct' = nextAcct + 1
  /\ pc' = "await"
  /\ UNCHANGED << connected, transactions, byAccount, results, ledger, runs,
                  callLog, interrupted >>

AfterSettle == IF nextAcct < Len(byAccount) THEN "loop" ELSE "done"

\* results.imported / results.updated: the idx-th returned id is paired with
\* accountTransactions[idx].original
PairByPosition(ids, entries) ==
  [ k \in 1..(IF Len(ids) < Len(entries) THEN Len(ids) ELSE Len(entries)) |->
      [index |-> entries[k].index, actualId |-> ids[k]] ]

\* results.failed: the idx-th reported error is paired the same way
PairErrors(errors, entries) ==
  [ k \in 1..(IF Len(errors) < Len(entries) THEN Len(errors) ELSE Len(entries)) |->
      [index |-> entries[k].index, error |-> errors[k]] ]

\* the call resolves and its result is folded into results (the progress
\* callback only reports and is left out)
BatchResolve ==
  /\ UNCHANGED exceptEngine
  /\ pc = "await"
  /\ \E c \in inflight :
       LET entries == byAccount[c.slot].entries
           r == batchImport(ledger[c.accountId], c.accountId, c.importData)
           imp == PairByPosition(r.added, entries)
           upd == PairByPosition(r.updated, entries)
           err == PairErrors(r.errors, entries)
       IN /\ ledger' = [ledger EXCEPT ![c.accountId] = r.led]
          /\ results' =
               [results EXCEPT
                  !.imported = @ \o imp,
                  !.updated = @ \o upd,
                  !.failed = @ \o err,
                  !.summary.added = @ + Len(imp),
                  !.summary.updated = @ + Len(upd),
                  !.summary.errors = @ + Len(err)]
          /\ inflight' = inflight \ {c}
          /\ callLog' = Append(callLog, [accountId |-> c.accountId,
                                         slot |-> c.slot, outcome |-> "resolved",
                                         imported |-> imp, updated |-> upd])
  /\ pc' = AfterSettle
  /\ UNCHANGED << connected, transactions, byAccount, nextAcct, runs, interrupted >>

\* the failed entries of a rejected batch call: every entry of that account
RECURSIVE AllEntries(_, _)
AllEntries(map, k) ==
  IF k > Len(map) THEN <<>> ELSE map[k].entries \o AllEntries(map, k + 1)
\* a variant that marks the transactions of every account failed
FailedOfWholeRun(slot) ==
  LET entries == AllEntries(byAccount, 1)
  IN [ k \in 1..Len(entries) |->
         [index |-> entries[k].index, error |-> "Batch import failed for account"] ]
FailedOfBatch(slot) ==
  LET entries == byAccount[slot].entries
  IN [ k \in 1..Len(entries) |->
         [index |-> entries[k].index, error |-> "Batch import failed for account"] ]

\* the call rejects (the sink may have stored a prefix of the batch) and the
\* catch marks the account's transactions failed
BatchReject ==
  /\ UNCHANGED exceptEngine
  /\ pc = "await"
  /\ \E c \in inflight :
       \E n \in 0..Len(c.importData) :
         LET r == batchImport(ledger[c.accountId], c.accountId,
                              SubSeq(c.importData, 1, n))
             f == FailedOfBatch(c.slot)
         IN /\ ledger' = [ledger EXCEPT ![c.accountId] = r.led]
            /\ results' = [results EXCEPT !.failed = @ \o f,
                                          !.summary.errors = @ + Len(f)]
            /\ inflight' = inflight \ {c}
            /\ callLog' = Append(callLog, [accountId |-> c.accountId,
                                           slot |-> c.slot, outcome |-> "rejected",
                                           imported |-> <<>>, updated |-> <<>>])
  /\ pc' = AfterSettle
  /\ UNCHANGED << connected, transactions, byAccount, nextAcct, runs, interrupted >>

\* the process dies between two batch calls
Crash ==
  /\ UNCHANGED exceptEngine
  /\ pc = "loop"
  /\ nextAcct > 0
  /\ pc' = "crashed"
  /\ interrupted' = TRUE
  /\ UNCHANGED << connected, transactions, byAccount, nextAcct, inflight,
                  results, ledger, runs, callLog >>

\* --------------------------------------- the imported_id of two transactions
\* Canonical transactions as the transformer can produce them: Account may be
\* missing, Date may be null, Amount may be NaN; the transfer metadata, the
\* injected account id and the category vary independently of the five fields.
CanonDomain ==
  { [ Date |-> d, Account |-> a, Payee |-> p, Notes |-> n, Amount |-> m,
      isTransfer |-> x[1], transferTo |-> x[2], accountId |-> x[3],
      category |-> x[4] ] :
      d \in {"2024-01-15", Null}, a \in {"Checking", None},
      p \in {"Acme", "Deposit"}, n \in {"Deposit", "Deposit [t1]"},
      m \in {Num(-500), Num(500), NaN},
      x \in { << FALSE, None, None, None >>, << TRUE, "acc2", "acc1", "Food" >> } }

\* client.generateImportedId is called on each of the two transactions
HashBoth ==
  /\ hid = <<>>
  /\ hid' = << generateImportedId(hx), generateImportedId(hy) >>
  /\ UNCHANGED << hx, hy >>
  /\ UNCHANGED exceptId

\* ------------------------------------------------------ the transformer
\* A raw amount is a number, a numeric string ('50.00'), '', null or
\* undefined.  m is the value in thousandths of a dollar, so amount * 100 is
\* m tenths of a cent.
RawNum(m) == [k |-> "number", m |-> m]
RawStr(m) == [k |-> "string", m |-> m]
RawEmpty == [k |-> "empty", m |-> 0]
RawNull == [k |-> "null", m |-> 0]
RawUndefined == [k |-> "undefined", m |-> 0]
\* a string that is not a number ('not-a-number'): amount * 100 is NaN
RawText == [k |-> "text", m |-> 0]
AmountMissing(a) == a.k \in {"empty", "null", "undefined"}

\* String.prototype.toLowerCase over the letters, and String.prototype.includes
UpperLetters == "ABCDEFGHIJKLMNOPQRSTUVWXYZ"
LowerLetters == "abcdefghijklmnopqrstuvwxyz"
LowerChar(c) ==
  IF \E n \in 1..Len(UpperLetters) : SubSeq(UpperLetters, n, n) = c
  THEN LET n == CHOOSE n \in 1..Len(UpperLetters) : SubSeq(UpperLetters, n, n) = c
       IN SubSeq(LowerLetters, n, n)
  ELSE c
RECURSIVE toLowerCase(_)
toLowerCase(str) ==
  IF Len(str) = 0 THEN ""
  ELSE LowerChar(SubSeq(str, 1, 1)) \o toLowerCase(SubSeq(str, 2, Len(str)))
includes(str, part) ==
  \E n \in 1..(Len(str) - Len(part) + 1) : SubSeq(str, n, n + Len(part) - 1) = part
\* (x || '')
OrEmpty(x) == IF Truthy(x) THEN x ELSE ""

debitTypes ==
  << "withdrawal", "withdraw", "payment", "purchase", "transfer_out", "fee",
     "interest_charge" >>
creditTypes == << "deposit", "transfer_in", "interest", "dividend", "refund" >>
SomeIncluded(str, list) == \E n \in 1..Len(list) : includes(str, list[n])

\* a variant that never finds the raw amount negative
AmountNeverNegative(a) == FALSE
\* transaction.amount < 0  (null and '' compare as 0, undefined as NaN)
AmountNegative(a) == a.k \in {"number", "string"} /\ a.m < 0

\* a variant that looks at the credit types before anything else
isDebitCreditFirst(t) ==
  LET type == toLowerCase(OrEmpty(t.type))
  IN IF SomeIncluded(type, creditTypes) THEN FALSE
     ELSE IF SomeIncluded(type, debitTypes) THEN TRUE
     ELSE AmountNegative(t.amount)
isDebitTransaction(t) ==
  LET type == toLowerCase(OrEmpty(t.type))
  IN IF SomeIncluded(type, debitTypes) THEN TRUE
     ELSE IF AmountNegative(t.amount) THEN TRUE
     ELSE IF SomeIncluded(type, creditTypes) THEN FALSE
     ELSE FALSE

\* Math.round of x tenths of a cent, in cents: floor(x / 10 + 1/2)
MathRound(tenths) == (tenths + 5) \div 10
\* Math.abs
Abs(n) == IF n < 0 THEN -n ELSE n
\* amount * 100 is a product of IEEE 754 doubles.  For these amounts (in
\* thousandths, every amount below 3 dollars that ends in half a cent and
\* every amount of RawAmounts was computed) the product falls just below the
\* exact m / 10: 1.005 * 100 is 100.49999999999999.  For the other amounts
\* it is exact or off by less than the distance to the nearest tie.
ProductFallsBelow(m) ==
  Abs(m) \in { 145, 285, 565, 575, 1005, 1015, 1025, 1035, 1255, 1265, 1275,
               2135, 2155, 2175, 2195, 2385, 2405, 2425, 2445 }
\* Math.round of the product for a non-negative exact product of tenths
RoundProduct(m, tenths) ==
  IF ProductFallsBelow(m) THEN MathRound(tenths) - 1 ELSE MathRound(tenths)
\* amountInCents: NaN for a missing or non-numeric amount, else
\* Math.round(rawCents) for rawCents >= 0 and -Math.round(-rawCents) below 0
amountInCents(a) ==
  IF AmountMissing(a) THEN NaN
  ELSE IF a.k \in {"text", "nan"} THEN NaN
  ELSE LET rawCents == a.m
       IN IF rawCents >= 0 THEN Num(RoundProduct(a.m, rawCents))
          ELSE Num(-RoundProduct(a.m, -rawCents))
\* isDebit ? -Math.abs(amountInCents) : Math.abs(amountInCents)
finalAmount(t) ==
  LET c == amountInCents(t.amount)
  IN IF c.nan THEN NaN
     ELSE IF isDebitTransaction(t) THEN Num(-Abs(c.v)) ELSE Num(Abs(c.v))

\* options.isAccountMapped: absent, or the predicate of the mapped names
NoPredicate == [present |-> FALSE, mapped |-> {}]
Mapped(names) == [present |-> TRUE, mapped |-> names]
NoTransfer == [isTransfer |-> FALSE, toAccount |-> Null]
detectTransfer(t, isAccountMapped) ==
  IF /\ Truthy(t.from) /\ Truthy(t.to)
     /\ isAccountMapped.present
     /\ t.from \in isAccountMapped.mapped
     /\ t.to \in isAccountMapped.mapped
  THEN [ isTransfer |-> TRUE,
         toAccount |-> IF t.account = t.from THEN t.to ELSE t.from ]
  ELSE NoTransfer

\* formatDateToYMD: null for a missing date; a YYYY-MM-DD string (the only
\* form the field parser produces) is returned as it is
formatDateToYMD(dateStr) == IF Truthy(dateStr) THEN dateStr ELSE Null
FirstTruthy(a, b, c) == IF Truthy(a) THEN a ELSE IF Truthy(b) THEN b ELSE c

\* buildNotesFromSpec (the strings of the model carry no outer whitespace,
\* so trim() leaves them as they are)
buildNotesFromSpec(t) ==
  LET subheading == t.subheading
      type == t.type
      main0 == IF Truthy(subheading) /\ Truthy(type) /\ subheading # type
               THEN subheading \o " - " \o type
               ELSE IF Truthy(subheading) THEN subheading
               ELSE IF Truthy(type) THEN type
               ELSE ""
      mainPart == IF Truthy(t.email) THEN main0 \o " (" \o t.email \o ")" ELSE main0
      hasMessage == Truthy(t.message)
      hasQuantity == Truthy(t.filledQuantity)
      parts == (IF hasMessage THEN << t.message >> ELSE <<>>) \o
               (IF hasQuantity THEN << t.filledQuantity >> ELSE <<>>) \o
               (IF Truthy(t.transactionId)
                THEN << "[" \o t.transactionId \o "]" >> ELSE <<>>)
      suffix == IF parts = <<>> THEN ""
                ELSE IF Len(parts) = 1 THEN parts[1]
                ELSE IF Len(parts) = 2 THEN parts[1] \o " " \o parts[2]
                ELSE parts[1] \o " " \o parts[2] \o " " \o parts[3]
  IN IF suffix = "" THEN mainPart
     ELSE IF hasMessage \/ hasQuantity THEN mainPart \o ": " \o suffix
     ELSE mainPart \o " " \o suffix

\* getPayeeByType: the first key of typeMap, in its order, the type includes
typeMap ==
  << << "deposit", "Deposit" >>, << "withdrawal", "Withdrawal" >>,
     << "transfer", "Transfer" >>, << "transfer_in", "Transfer In" >>,
     << "transfer_out", "Transfer Out" >>, << "payment", "Payment" >>,
     << "purchase", "Purchase" >>, << "interest", "Interest" >>,
     << "dividend", "Dividend" >>, << "fee", "Fee" >>, << "refund", "Refund" >> >>
getPayeeByType(type) ==
  LET lowerType == toLowerCase(OrEmpty(type))
      hits == { n \in 1..Len(typeMap) : includes(lowerType, typeMap[n][1]) }
  IN IF hits # {}
     THEN typeMap[CHOOSE n \in hits : \A h \in hits : n <= h][2]
     ELSE IF Truthy(type) THEN type ELSE "Unknown"

\* buildPayeeName.  The descriptions of the model are words separated by single
\* blanks, without digits or punctuation: the second pattern then captures
\* the whole description unless the first one strips a "transfer to" prefix,
\* and cleanPayeeName changes nothing.
payeePrefixes == << "transfer to ", "transfer from ", "payment to ", "payment from " >>
StripPayeePrefix(d) ==
  LET low == toLowerCase(d)
      hits == { n \in 1..Len(payeePrefixes) :
                  /\ Len(d) > Len(payeePrefixes[n])
                  /\ SubSeq(low, 1, Len(payeePrefixes[n])) = payeePrefixes[n] }
  IN IF hits = {} THEN d
     ELSE LET n == CHOOSE n \in hits : TRUE
          IN SubSeq(d, Len(payeePrefixes[n]) + 1, Len(d))
wealthSimplePayees == {"Referral", "Interest", "Bonus", "Cash back", "Reimbursement"}
buildPayeeName(t) ==
  LET payeeName == IF Truthy(t.description) THEN StripPayeePrefix(t.description)
                   ELSE getPayeeByType(t.type)
  IN IF payeeName \in wealthSimplePayees THEN "WealthSimple" ELSE payeeName

\* transformTransaction(wsTransaction, options)
transformTransaction(t, isAccountMapped) ==
  LET rawDate == FirstTruthy(t.date, t.filled, t.submitted)
      transferInfo == detectTransfer(t, isAccountMapped)
      actualTransferInfo == IF t.transferInfo.isTransfer THEN t.transferInfo
                            ELSE transferInfo
      notes == IF actualTransferInfo.isTransfer /\ Truthy(t.from) /\ Truthy(t.to)
               THEN t.from \o " -> " \o t.to
               ELSE buildNotesFromSpec(t)
  IN [ Date |-> formatDateToYMD(rawDate),
       Account |-> t.account,
       Payee |-> buildPayeeName(t),
       Notes |-> notes,
       Amount |-> finalAmount(t),
       isTransfer |-> actualTransferInfo.isTransfer,
       transferTo |-> IF actualTransferInfo.isTransfer
                      THEN actualTransferInfo.toAccount ELSE None,
       accountId |-> None,
       category |-> None ]

\* Raw records handed to the transformer: every kind of amount, types with
\* and without debit and credit keywords in any case, and the account seen
\* from either side of a transfer.
RawTypes ==
  { None, "payment", "Payment", "PURCHASE", "Withdrawal", "withdraw",
    "transfer_out", "Management Fee", "interest_charge", "Coffee", "deposit",
    "Deposit", "interest", "refund", "transfer_in", "dividend", "transfer" }
RawAmounts ==
  { RawStr(50000), RawStr(-50000), RawNum(50000), RawNum(-75250), RawNum(0),
    RawNum(10555), RawNum(-10555), RawNum(4), RawNum(-4), RawStr(1005),
    RawNum(-1005), RawNum(125), RawEmpty, RawNull, RawUndefined, RawText }
RawSides ==
  { << "Checking", None, None >>, << "Checking", "Checking", "Savings" >>,
    << "Savings", "Checking", "Savings" >>, << "Checking", "Checking", "Checking" >>,
    << "Checking", "Checking", "Crypto" >> }
RawTx(type, amount, side) ==
  [ account |-> side[1], from |-> side[2], to |-> side[3], type |-> type,
    amount |-> amount, date |-> "2024-01-15", filled |-> None,
    submitted |-> None, description |-> None, subheading |-> None,
    email |-> None, message |-> None, filledQuantity |-> None,
    transactionId |-> "t1", transferInfo |-> NoTransfer ]
RawDomain == { RawTx(y, a, d) : y \in RawTypes, a \in RawAmounts, d \in RawSides }
MappedNames == {"Checking", "Savings"}

\* transformTransaction(raw, { isAccountMapped })
Transform ==
  /\ out = <<>>
  /\ out' = << transformTransaction(raw, Mapped(MappedNames)), Mapped(MappedNames) >>
  /\ UNCHANGED raw
  /\ UNCHANGED exceptTransform

\* transformTransaction(raw) without the predicate
TransformNoPredicate ==
  /\ out = <<>>
  /\ out' = << transformTransaction(raw, NoPredicate), NoPredicate >>
  /\ UNCHANGED raw
  /\ UNCHANGED exceptTransform

\* --------------------------------------------------------- resolveAccount
\* A configuration is absent (null, or without an accounts array) or carries
\* the mapping list config.accounts in declaration order; a mapping may lack
\* wsAccountName or actualAccountId.
NoConfig == [present |-> FALSE, accounts |-> <<>>]
Config(accounts) == [present |-> TRUE, accounts |-> accounts]
Mapping(pattern, id) == [wsAccountName |-> pattern, actualAccountId |-> id]
\* null
NotResolved ==
  [ accountId |-> None, accountName |-> None, needsLookup |-> FALSE,
    matchType |-> None, matchedPattern |-> None ]

\* /[.*+?^${}()|[\]\\]/.test(pattern)
regexChars == ".*+?^${}()|[]\\"
isRegex(pattern) ==
  \E n \in 1..Len(pattern) : includes(regexChars, SubSeq(pattern, n, n))

\* new RegExp('^' + pattern + '$', 'i').  The patterns of the model are built
\* from literal characters, ".", a character class "[...]", a group "(...)"
\* of literal characters, and the quantifiers "*" and "?" after any of them.
IndexFrom(str, c, n) ==
  LET hits == { k \in n..Len(str) : SubSeq(str, k, k) = c }
  IN IF hits = {} THEN 0 ELSE CHOOSE k \in hits : \A h \in hits : k <= h
\* the length of the atom at the head of p; 0 where the constructor throws
\* (unterminated class or group, unmatched ")", nothing to repeat)
AtomEnd(p) ==
  LET c == SubSeq(p, 1, 1)
  IN IF c = "[" THEN IndexFrom(p, "]", 2)
     ELSE IF c = "(" THEN IndexFrom(p, ")", 2)
     ELSE IF c \in {")", "*", "?"} THEN 0
     ELSE 1
Quantifier(p, e) ==
  IF e < Len(p) /\ SubSeq(p, e + 1, e + 1) \in {"*", "?"}
  THEN SubSeq(p, e + 1, e + 1) ELSE ""
RECURSIVE ValidRegex(_)
ValidRegex(p) ==
  IF Len(p) = 0 THEN TRUE
  ELSE LET e == AtomEnd(p)
       IN e > 0 /\ ValidRegex(SubSeq(p, e + 1 + Len(Quantifier(p, e)), Len(p)))
\* how many characters of str the atom p[1..e] takes at the head of str (0: the atom
\* does not match there)
AtomTakes(p, e, str) ==
  LET c == SubSeq(p, 1, 1)
      inner == SubSeq(p, 2, e - 1)
  IN IF c = "("
     THEN IF Len(str) >= Len(inner) /\ SubSeq(str, 1, Len(inner)) = inner
          THEN Len(inner) ELSE 0
     ELSE IF Len(str) = 0 THEN 0
     ELSE IF c = "[" THEN IF includes(inner, SubSeq(str, 1, 1)) THEN 1 ELSE 0
     ELSE IF c = "." THEN 1
     ELSE IF c = SubSeq(str, 1, 1) THEN 1 ELSE 0
\* the whole of str matches the whole of p
RECURSIVE MatchHere(_, _)
MatchHere(p, str) ==
  IF Len(p) = 0 THEN Len(str) = 0
  ELSE LET e == AtomEnd(p)
           q == Quantifier(p, e)
           rest == SubSeq(p, e + 1 + Len(q), Len(p))
           n == AtomTakes(p, e, str)
           after == SubSeq(str, n + 1, Len(str))
       IN IF q = "" THEN n > 0 /\ MatchHere(rest, after)
          ELSE IF q = "?" THEN MatchHere(rest, str) \/ (n > 0 /\ MatchHere(rest, after))
          ELSE MatchHere(rest, str) \/ (n > 0 /\ MatchHere(p, after))
\* regex.test(wsAccountName) with the i flag
RegExpTest(pattern, name) == MatchHere(toLowerCase(pattern), toLowerCase(name))

\* whether one valid mapping matches the name, and how
MatchType(pattern, name) ==
  IF isRegex(pattern)
  THEN IF ValidRegex(pattern) /\ RegExpTest(pattern, name) THEN "regex" ELSE None
  ELSE IF toLowerCase(pattern) = toLowerCase(name) THEN "exact" ELSE None
Matched(account, name, matchType) ==
  [ accountId |-> account.actualAccountId, accountName |-> name,
    needsLookup |-> FALSE, matchType |-> matchType,
    matchedPattern |-> account.wsAccountName ]
\* a variant of the loop that keeps the last mapping that matches
RECURSIVE resolveLastFrom(_, _, _, _)
resolveLastFrom(name, accounts, i, found) ==
  IF i > Len(accounts) THEN found
  ELSE LET account == accounts[i]
       IN IF ~Truthy(account.wsAccountName) \/ ~Truthy(account.actualAccountId)
          THEN resolveLastFrom(name, accounts, i + 1, found)
          ELSE IF MatchType(account.wsAccountName, name) # None
          THEN resolveLastFrom(name, accounts, i + 1,
                 Matched(account, name, MatchType(account.wsAccountName, name)))
          ELSE resolveLastFrom(name, accounts, i + 1, found)
resolveLast(name, cfg) ==
  IF ~cfg.present THEN NotResolved
  ELSE resolveLastFrom(name, cfg.accounts, 1, NotResolved)
\* for (const account of config.accounts), from the i-th mapping on
RECURSIVE resolveFrom(_, _, _)
resolveFrom(name, accounts, i) ==
  IF i > Len(accounts) THEN NotResolved
  ELSE LET account == accounts[i]
       IN IF ~Truthy(account.wsAccountName) \/ ~Truthy(account.actualAccountId)
          THEN resolveFrom(name, accounts, i + 1)
          ELSE IF MatchType(account.wsAccountName, name) # None
          THEN Matched(account, name, MatchType(account.wsAccountName, name))
          ELSE resolveFrom(name, accounts, i + 1)
resolveAccount(name, cfg) ==
  IF ~cfg.present THEN NotResolved
  ELSE resolveFrom(name, cfg.accounts, 1)

\* The mapping lists resolveAccount is run on: exact names in either case, patterns that
\* overlap so that several mappings match one name, a pattern the RegExp
\* constructor rejects, a name with brackets used as its own pattern, and
\* mappings without a name or without an id.
MaxMappings == 2
Mappings ==
  { Mapping("WealthSimple Cash", "id1"), Mapping("wealthsimple cash", "id2"),
    Mapping("Joint Chequing( - Joint)?", "id1"), Mapping(".*Joint.*", "id2"),
    Mapping("[invalid regex", "id1"), Mapping("Test Account [Special]", "id2"),
    Mapping("Other Account", "id1"), Mapping(None, "id2"),
    Mapping("WealthSimple Cash", None) }
AccountNames ==
  { "WealthSimple Cash", "wealthsimple cash", "Joint Chequing - Joint",
    "Joint Chequing", "My Joint Savings", "Test Account [Special]",
    "Test Account s", "Other Account", "Unknown Account" }
Configs == { NoConfig } \cup { Config(q) : q \in SeqsUpTo(Mappings, MaxMappings) }

\* resolveAccount(wsAccountName, config)
Resolve ==
  /\ resolved = <<>>
  /\ resolved' = << resolveAccount(wsAccountName, config) >>
  /\ UNCHANGED << wsAccountName, config >>
  /\ UNCHANGED exceptResolve

\* ----------------------------------------------- the import orchestrator
\* importTransactions(options) of the command line: the raw records that
\* passed shouldIncludeTransaction are regrouped, transformed, validated and
\* handed, one mapped account at a time, to client.importTransactions.
\* fullConfig: Checking and Savings are mapped, any other name is not
fullConfig == Config(<< Mapping("Checking", "acc1"), Mapping("savings", "acc2") >>)
isAccountMapped(accountName) == resolveAccount(accountName, fullConfig) # NotResolved
WsNames == { "Checking", "Savings", "Crypto" }
MappedPredicate == Mapped({ n \in WsNames : isAccountMapped(n) })

\* Set.add on the insertion-ordered set
SetAdd(q, x) == IF \E k \in 1..Len(q) : q[k] = x THEN q ELSE Append(q, x)
\* getUniqueAccounts: the account of every transaction, and its from and to
\* unless the type is an e-transfer, a pre-authorized debit or a direct deposit
ExcludedFromTo(t) ==
  LET typeStr == toLowerCase(OrEmpty(t.type))
  IN \/ includes(typeStr, "interac e-transfer")
     \/ includes(typeStr, "pre-authorized debit")
     \/ includes(typeStr, "direct deposit")
AddAccountsOf(q, t) ==
  LET a == IF Truthy(t.account) THEN SetAdd(q, t.account) ELSE q
      b == IF ~ExcludedFromTo(t) /\ Truthy(t.from) THEN SetAdd(a, t.from) ELSE a
  IN IF ~ExcludedFromTo(t) /\ Truthy(t.to) THEN SetAdd(b, t.to) ELSE b
RECURSIVE getUniqueAccountsFrom(_, _, _)
getUniqueAccountsFrom(txs, i, q) ==
  IF i > Len(txs) THEN q
  ELSE getUniqueAccountsFrom(txs, i + 1, AddAccountsOf(q, txs[i]))
getUniqueAccounts(txs) == getUniqueAccountsFrom(txs, 1, <<>>)

\* options.account: the requested names that match a unique account, case
\* insensitively, each replaced by the first account it matches
RECURSIVE matchedAccountsFrom(_, _, _)
matchedAccountsFrom(requested, unique, i) ==
  IF i > Len(requested) THEN <<>>
  ELSE LET hits == { k \in 1..Len(unique) :
                       toLowerCase(unique[k]) = toLowerCase(requested[i]) }
           rest == matchedAccountsFrom(requested, unique, i + 1)
       IN IF hits = {} THEN rest
          ELSE << unique[CHOOSE k \in hits : \A h \in hits : k <= h] >> \o rest

\* a transfer recorded under its destination whose two accounts are mapped
\* is moved to its source account
IsMovedTransfer(t) ==
  /\ Truthy(t.from) /\ Truthy(t.to) /\ t.from # t.to
  /\ t.account = t.to
  /\ isAccountMapped(t.from) /\ isAccountMapped(t.to)
\* transaction.amount ? String(-parseFloat(transaction.amount)) : '0'
\* ('', null, undefined and the number 0 are falsy)
NegatedAmount(a) ==
  IF AmountMissing(a) THEN RawStr(0)
  ELSE IF a.k = "text" THEN RawText
  ELSE RawStr(-a.m)
MovedCopy(t) ==
  [ t EXCEPT !.account = t.from,
             !.amount = NegatedAmount(t.amount),
             !.transferInfo = [isTransfer |-> TRUE, toAccount |-> t.to] ]

\* regularTransactionsByAccount after both loops: one entry per unique
\* account with its transactions that stay, then every moved transfer pushed
\* to the entry of its source account
RegularOf(txs, wsAccount) ==
  SelectSeq(txs, LAMBDA t : t.account = wsAccount /\ ~IsMovedTransfer(t))
MovedOf(txs, wsAccount) ==
  SelectSeq(txs, LAMBDA t : t.account = wsAccount /\ IsMovedTransfer(t))
RECURSIVE transfersToProcess(_, _, _)
transfersToProcess(txs, unique, i) ==
  IF i > Len(unique) THEN <<>>
  ELSE LET moved == MovedOf(txs, unique[i])
       IN [ k \in 1..Len(moved) |-> MovedCopy(moved[k]) ] \o
          transfersToProcess(txs, unique, i + 1)
RECURSIVE MapSetAll(_, _, _, _)
MapSetAll(map, txs, unique, i) ==
  IF i > Len(unique) THEN map
  ELSE LET entry == [key |-> unique[i], entries |-> RegularOf(txs, unique[i])]
           put == IF MapHas(map, unique[i])
                  THEN [ k \in 1..Len(map) |->
                           IF map[k].key = unique[i] THEN entry ELSE map[k] ]
                  ELSE Append(map, entry)
       IN MapSetAll(put, txs, unique, i + 1)
RECURSIVE MapPushAll(_, _, _)
MapPushAll(map, moved, i) ==
  IF i > Len(moved) THEN map
  ELSE MapPushAll(MapPush(map, moved[i].account, moved[i]), moved, i + 1)
regularTransactionsByAccount(txs, unique) ==
  MapPushAll(MapSetAll(<<>>, txs, unique, 1), transfersToProcess(txs, unique, 1), 1)

\* transformTransactions: map transformTransaction, then drop the results
\* whose Amount is not finite
IsFinite(x) == ~x.nan
transformTransactions(txs, predicate) ==
  LET all == [ k \in 1..Len(txs) |-> transformTransaction(txs[k], predicate) ]
  IN SelectSeq(all, LAMBDA t : IsFinite(t.Amount))

\* typeof x for an Amount: "number" for every number, NaN included; an
\* Amount of another type ('invalid') carries its type
NotANumber == [nan |-> FALSE, v |-> 0, type |-> "string"]
TypeOf(x) == IF "type" \in DOMAIN x THEN x.type ELSE "number"
\* validateTransaction: the errors of a canonical transaction (Notes is a
\* string in every transaction of the model)
validateTransaction(t) ==
  (IF ~Truthy(t.Date) THEN << "Missing transaction date" >> ELSE <<>>) \o
  (IF TypeOf(t.Amount) # "number" THEN << "Invalid amount" >> ELSE <<>>) \o
  (IF ~Truthy(t.Account) THEN << "Missing account" >> ELSE <<>>)
isValid(t) == validateTransaction(t) = <<>>

\* validateTransaction(transaction) on one canonical transaction
ValidateDomain ==
  CanonDomain \cup { [t EXCEPT !.Amount = NotANumber] : t \in CanonDomain }
Validate ==
  /\ validation = <<>>
  /\ validation' = << [isValid |-> isValid(transaction),
                       errors |-> validateTransaction(transaction)] >>
  /\ UNCHANGED transaction
  /\ UNCHANGED exceptValidate

\* transactionsWithAccountId: the account id is injected and the transfer
\* target is replaced by its account id, or the transfer flags are removed
\* when the target does not resolve
WithAccountId(t, accountInfo) ==
  LET withId == [t EXCEPT !.accountId = accountInfo.accountId]
      target == resolveAccount(t.transferTo, fullConfig)
  IN IF t.isTransfer /\ Truthy(t.transferTo)
     THEN IF target # NotResolved
          THEN [withId EXCEPT !.transferTo = target.accountId]
          ELSE [withId EXCEPT !.isTransfer = FALSE, !.transferTo = None]
     ELSE withId

\* client.importTransactions as one awaited call: the batch is grouped and
\* one sink call is made per account key, in order; the calls of the slots in
\* rejected fail (storing nothing), the others are stored by the sink
RECURSIVE ClientCallFrom(_, _, _, _)
ClientCallFrom(map, rejected, k, acc) ==
  IF k > Len(map) THEN acc
  ELSE LET data == ImportData(map[k].entries)
           call == [accountId |-> map[k].key, importData |-> data,
                    rejected |-> k \in rejected]
           r == batchImport(acc.led[map[k].key], map[k].key, data)
       IN IF k \in rejected
          THEN ClientCallFrom(map, rejected, k + 1,
                 [acc EXCEPT !.calls = Append(@, call),
                             !.failed = @ + Len(map[k].entries)])
          ELSE ClientCallFrom(map, rejected, k + 1,
                 [acc EXCEPT !.calls = Append(@, call),
                             !.led = [@ EXCEPT ![map[k].key] = r.led],
                             !.imported = @ + Len(r.added)])
ClientCall(led, batch, rejected) ==
  LET g == Group(batch)
  IN ClientCallFrom(g.map, rejected, 1,
       [led |-> led, calls |-> <<>>, imported |-> 0, failed |-> Len(g.errors)])

\* console output that tells what happened to an account or a record
Say(kind, account) == [kind |-> kind, account |-> account]
RECURSIVE InvalidAmountWarnings(_, _, _)
InvalidAmountWarnings(txs, predicate, i) ==
  IF i > Len(txs) THEN <<>>
  ELSE (IF IsFinite(transformTransaction(txs[i], predicate).Amount) THEN <<>>
        ELSE << Say("invalid amount", txs[i].account) >>) \o
       InvalidAmountWarnings(txs, predicate, i + 1)

\* const keepContextOpen = !config.dryRun && options.adjustBalances: the
\* scrape then hands its browser context, still open, to the run
keepContextOpen(opts) == ~opts.dryRun /\ opts.adjustBalances
OrchInit(txs, opts) ==
  /\ wsTransactions = txs
  /\ options = opts
  /\ opc = "start"
  /\ regular = <<>>
  /\ oi = 0
  /\ transformedGroups = <<>>
  /\ validatedGroups = <<>>
  /\ console = <<>>
  /\ submitted = <<>>
  /\ sinkCalls = <<>>
  /\ oledger = [a \in SinkKeys |-> <<>>]
  /\ importResults = [imported |-> 0, failed |-> 0]
  /\ client = "null"
  /\ effects = <<>>
  /\ browserContext = IF keepContextOpen(opts) THEN "open" ELSE "undefined"
  /\ orchOutcome = ""

\* The function returns or throws, and its finally block runs:
\* if (client) await client.shutdown().  Nothing on this way closes the
\* browser context.
OrchEnd(calls, how) ==
  /\ opc' = "done"
  /\ orchOutcome' = how
  /\ client' = IF client = "connected" THEN "shutdown" ELSE client
  /\ effects' = IF client = "connected" THEN Append(calls, "shutdown") ELSE calls

\* the accounts the run goes over: the unique accounts, or the accounts the
\* --account names matched
AccountsOfRun(txs, opts) ==
  IF Len(opts.account) > 0
  THEN matchedAccountsFrom(opts.account, getUniqueAccounts(txs), 1)
  ELSE getUniqueAccounts(txs)

\* from the filtered raw transactions to the accounts of the run: nothing to
\* import, the unique accounts, the --account filter
OrchPrepare ==
  /\ opc = "start"
  /\ LET matched == AccountsOfRun(wsTransactions, options)
         filtering == Len(options.account) > 0
     IN IF Len(wsTransactions) = 0
        THEN /\ console' = Append(console, Say("nothing to import", None))
             /\ OrchEnd(effects, "returned")
        ELSE IF filtering /\ matched = <<>>
        THEN /\ console' = Append(console, Say("no matching accounts", None))
             /\ OrchEnd(effects, "returned")
        ELSE /\ console' = IF filtering
                           THEN console \o [ k \in 1..Len(matched) |->
                                               Say("filtering to", matched[k]) ]
                           ELSE console
             /\ opc' = "connect"
             /\ UNCHANGED << client, effects, orchOutcome >>
  /\ UNCHANGED << wsTransactions, options, regular, oi, transformedGroups,
                  validatedGroups, submitted, sinkCalls, oledger, importResults,
                  browserContext >>
  /\ UNCHANGED exceptOrch

\* a variant that connects in a dry run too
ConnectsAlways(cfg) == TRUE
\* if (!config.dryRun) { client = await createClient(config) ... }
Connects(cfg) == ~cfg.dryRun
\* the ledger client is created and connected unless the run is a dry run
\* (createClient rejects when connect does), then the transfers recorded
\* under their destination are moved: regularTransactionsByAccount
OrchConnect ==
  /\ opc = "connect"
  /\ \E connectRejects \in BOOLEAN :
       IF Connects(options) /\ connectRejects
       THEN /\ OrchEnd(Append(effects, "createClient"), "threw")
            /\ UNCHANGED regular
       ELSE /\ client' = IF Connects(options) THEN "connected" ELSE client
            /\ effects' = IF Connects(options)
                          THEN Append(effects, "createClient") ELSE effects
            /\ regular' = regularTransactionsByAccount(
                            wsTransactions, AccountsOfRun(wsTransactions, options))
            /\ opc' = "accounts"
            /\ UNCHANGED orchOutcome
  /\ UNCHANGED << wsTransactions, options, oi, transformedGroups, validatedGroups,
                  console, submitted, sinkCalls, oledger, importResults,
                  browserContext >>
  /\ UNCHANGED exceptOrch

\* a variant that reports a skipped account in verbose mode only
SkipMessageIfVerbose(wsAccount) ==
  IF options.verbose THEN << Say("skipping unmapped account", wsAccount) >> ELSE <<>>
\* console.log(`Skipping unmapped account: ...`), whatever config.verbose is
SkipMessage(wsAccount) == << Say("skipping unmapped account", wsAccount) >>

\* one iteration of the loop over regularTransactionsByAccount: an empty
\* entry is passed over, an unmapped account is skipped with a message, a
\* mapped account gets its transactions transformed
OrchAccount ==
  /\ opc = "accounts"
  /\ oi < Len(regular)
  /\ LET wsAccount == regular[oi + 1].key
         accountTransactions == regular[oi + 1].entries
         info == resolveAccount(wsAccount, fullConfig)
     IN IF Len(accountTransactions) = 0
        THEN UNCHANGED << console, transformedGroups >>
        ELSE IF info = NotResolved
        THEN /\ console' = console \o SkipMessage(wsAccount)
             /\ UNCHANGED transformedGroups
        ELSE /\ console' = console \o
                  InvalidAmountWarnings(accountTransactions, MappedPredicate, 1)
             /\ transformedGroups' = Append(transformedGroups,
                  [ key |-> wsAccount,
                    transactions |->
                      transformTransactions(accountTransactions, MappedPredicate),
                    accountInfo |-> info ])
  /\ oi' = oi + 1
  /\ UNCHANGED << wsTransactions, options, opc, regular, validatedGroups,
                  submitted, sinkCalls, oledger, importResults, client, effects,
                  browserContext, orchOutcome >>
  /\ UNCHANGED exceptOrch

\* the validation pass: invalid transactions are left out (and reported in
\* verbose mode), groups without a valid transaction are left out
ValidOf(group) == SelectSeq(group.transactions, isValid)
InvalidOf(group) == SelectSeq(group.transactions, LAMBDA t : ~isValid(t))
RECURSIVE ValidationErrors(_, _)
ValidationErrors(groups, i) ==
  IF i > Len(groups) THEN <<>>
  ELSE [ k \in 1..Len(InvalidOf(groups[i])) |->
           Say("validation error", groups[i].key) ] \o
       ValidationErrors(groups, i + 1)
OrchValidate ==
  /\ opc = "accounts"
  /\ oi = Len(regular)
  /\ validatedGroups' =
       SelectSeq([ k \in 1..Len(transformedGroups) |->
                     [transformedGroups[k] EXCEPT
                        !.transactions = ValidOf(transformedGroups[k])] ],
                 LAMBDA g : Len(g.transactions) > 0)
  /\ console' = IF options.verbose
                THEN console \o ValidationErrors(transformedGroups, 1)
                ELSE console
  /\ opc' = IF options.dryRun THEN "table" ELSE "import"
  /\ oi' = 0
  /\ UNCHANGED << wsTransactions, options, regular, transformedGroups,
                  submitted, sinkCalls, oledger, importResults, client, effects,
                  browserContext, orchOutcome >>
  /\ UNCHANGED exceptOrch

\* a dry run prints the table of the transformed transactions, passes over
\* the balance adjustment and returns
OrchDryRun ==
  /\ opc = "table"
  /\ console' = Append(console, Say("table", None))
  /\ OrchEnd(effects, "returned")
  /\ UNCHANGED << wsTransactions, options, regular, oi, transformedGroups,
                  validatedGroups, submitted, sinkCalls, oledger, importResults,
                  browserContext >>
  /\ UNCHANGED exceptOrch

\* one iteration of the import loop: await client.importTransactions(...)
OrchImportGroup ==
  /\ opc = "import"
  /\ oi < Len(validatedGroups)
  /\ LET group == validatedGroups[oi + 1]
         batch == [ k \in 1..Len(group.transactions) |->
                      WithAccountId(group.transactions[k], group.accountInfo) ]
     IN \E rejected \in SUBSET (1..Len(Group(batch).map)) :
          \E r \in { ClientCall(oledger, batch, rejected) } :
             /\ submitted' = Append(submitted, batch)
             /\ sinkCalls' = sinkCalls \o r.calls
             /\ oledger' = r.led
             /\ importResults' =
                  [ imported |-> importResults.imported + r.imported,
                    failed |-> importResults.failed + r.failed ]
  /\ oi' = oi + 1
  /\ effects' = Append(effects, "importTransactions")
  /\ UNCHANGED << wsTransactions, options, opc, regular, transformedGroups,
                  validatedGroups, console, client, browserContext, orchOutcome >>
  /\ UNCHANGED exceptOrch

\* if (!config.dryRun && options.adjustBalances && browserContext)
AdjustsBalances == ~options.dryRun /\ options.adjustBalances /\ browserContext = "open"
\* after the last group: await client.sync(), await saveConfig(fullConfig)
\* (fullConfig has accounts), the results are displayed; either call may
\* reject, and the function then throws
OrchFinish ==
  /\ opc = "import"
  /\ oi = Len(validatedGroups)
  /\ \E rejects \in {"nothing", "sync", "saveConfig"} :
       LET synced == Append(effects, "sync")
           saved == IF Len(fullConfig.accounts) > 0 THEN Append(synced, "saveConfig")
                    ELSE synced
       IN IF rejects = "sync"
          THEN OrchEnd(synced, "threw") /\ UNCHANGED console
          ELSE IF rejects = "saveConfig" /\ Len(fullConfig.accounts) > 0
          THEN OrchEnd(saved, "threw") /\ UNCHANGED console
          ELSE /\ console' = Append(console, Say("import results", None))
               /\ IF AdjustsBalances
                  THEN /\ opc' = "adjust"
                       /\ effects' = saved
                       /\ UNCHANGED << client, orchOutcome >>
                  ELSE OrchEnd(saved, "returned")
  /\ UNCHANGED << wsTransactions, options, regular, oi, transformedGroups,
                  validatedGroups, submitted, sinkCalls, oledger, importResults,
                  browserContext >>
  /\ UNCHANGED exceptOrch

\* the balance adjustment: the balances are scraped from the kept context,
\* the ledger is adjusted and synced; an error is caught and reported; the
\* finally block closes the context; then the function returns
OrchAdjust ==
  /\ opc = "adjust"
  /\ \E step \in {"adjusted", "error"} :
       /\ console' = Append(console, Say(step, None))
       /\ OrchEnd(IF step = "adjusted"
                  THEN effects \o << "adjustAccountBalances", "sync" >>
                  ELSE effects, "returned")
  /\ browserContext' = "closed"
  /\ UNCHANGED << wsTransactions, options, regular, oi, transformedGroups,
                  validatedGroups, submitted, sinkCalls, oledger, importResults >>
  /\ UNCHANGED exceptOrch

\* The raw records of a run: an ordinary deposit, a purchase without an
\* amount, a transfer seen from its destination (with and without an amount),
\* the same transfer seen from its source, a deposit into an unmapped
\* account, a deposit without any date, and money arriving from an unmapped
\* account.  Every record has its own date.
OrchTx(date, type, amount, side) ==
  [ RawTx(type, amount, side) EXCEPT !.date = date ]
OrchRaw ==
  { OrchTx("2024-01-01", "deposit", RawStr(50000), << "Checking", None, None >>),
    OrchTx("2024-01-02", "purchase", RawEmpty, << "Checking", None, None >>),
    OrchTx("2024-01-03", "transfer_in", RawStr(50000), << "Savings", "Checking", "Savings" >>),
    OrchTx("2024-01-04", "transfer_in", RawNull, << "Savings", "Checking", "Savings" >>),
    OrchTx("2024-01-05", "transfer_out", RawNum(-50000), << "Checking", "Checking", "Savings" >>),
    OrchTx("2024-01-06", "deposit", RawStr(20000), << "Crypto", None, None >>),
    OrchTx(None, "deposit", RawStr(30000), << "Checking", None, None >>),
    OrchTx("2024-01-08", "deposit", RawStr(30000), << "Savings", "Crypto", "Savings" >>) }
MaxRaw == 2
\* the options of a run: --dry-run, --verbose, the --account names and
\* --adjust-balances
Options(dryRun, verbose, account, adjustBalances) ==
  [dryRun |-> dryRun, verbose |-> verbose, account |-> account,
   adjustBalances |-> adjustBalances]
OrchOptions ==
  { Options(FALSE, FALSE, <<>>, TRUE), Options(FALSE, TRUE, <<>>, FALSE),
    Options(TRUE, FALSE, <<>>, TRUE), Options(FALSE, FALSE, << "checking" >>, FALSE),
    Options(FALSE, TRUE, << "crypto" >>, TRUE) }

\* ------------------------------------------------------- ActualClient.connect
\* An Error: its message and the function at the top of its stack.
Err(message, frame) == [message |-> message, frame |-> frame]
NoError == Err("", "")
ErrorToString(e) == "Error: " \o e.message
ErrorStack(e) == ErrorToString(e) \o "\n    at " \o e.frame
\* String.prototype.includes
Includes(str, sub) ==
  \E k \in 1..(Len(str) - Len(sub) + 1) : SubSeq(str, k, k + Len(sub) - 1) = sub
isDatabaseError(error) ==
  LET errorString == ErrorToString(error) \o " " \o ErrorStack(error)
  IN \/ Includes(errorString, "out-of-sync")
     \/ Includes(errorString, "Database is out of sync")
     \/ Includes(errorString, "checkDatabaseValidity")

\* what api.init, api.downloadBudget, api.getAccounts and api.getPayees can
\* reject with, and what mkdir and rm can
ApiErrors ==
  { Err("Database is out-of-sync", "downloadBudget"),
    Err("Cannot open budget", "checkDatabaseValidity"),
    Err("Network timeout", "fetch"),
    Err("Database connection failed", "init") }
FsErrors == { Err("EACCES: permission denied", "mkdir") }
ApiSteps == { "init", "downloadBudget", "loadAccounts", "loadPayees" }
StepErrors(step) == IF step \in ApiSteps THEN ApiErrors ELSE FsErrors

Log(on, lines) == IF on THEN clog \o lines ELSE clog

ConnectInit(verbose, exists) ==
  /\ clientConfig = [verbose |-> verbose]
  /\ cpc = "idle"
  /\ cstep = ""
  /\ outcome = ""
  /\ caught = NoError
  /\ thrown = ""
  /\ initCalls = 0
  /\ clearCalls = 0
  /\ dataDirExists = exists
  /\ clog = <<>>

\* connect up to its first await: mkdir(dataDir) is called
ConnectCall ==
  /\ cpc = "idle" /\ outcome = ""
  /\ cpc' = "try"
  /\ cstep' = "mkdir"
  /\ outcome' = "pending"
  /\ UNCHANGED << clientConfig, caught, thrown, initCalls, clearCalls,
                  dataDirExists, clog, connected >>
  /\ UNCHANGED exceptConnect

\* the call after `step` in an attempt; "" after the last one
StepAfter(step) ==
  CASE step = "mkdir" -> "init"
    [] step = "init" -> "downloadBudget"
    [] step = "downloadBudget" -> "loadAccounts"
    [] step = "loadAccounts" -> "loadPayees"
    [] OTHER -> ""

\* the awaited call of the try block fulfils
TryOk ==
  /\ cpc = "try" /\ outcome = "pending"
  /\ cstep' = StepAfter(cstep)
  /\ outcome' = IF cstep = "loadPayees" THEN "resolved" ELSE "pending"
  /\ dataDirExists' = IF cstep = "mkdir" THEN TRUE ELSE dataDirExists
  /\ initCalls' = IF cstep = "mkdir" THEN initCalls + 1 ELSE initCalls
  /\ connected' = IF cstep = "downloadBudget" THEN TRUE ELSE connected
  /\ clog' = CASE cstep = "mkdir" ->
                    Log(clientConfig.verbose, << "Connecting to ActualBudget server",
                                                 "Using data directory" >>)
               [] cstep = "init" ->
                    Log(clientConfig.verbose, << "Downloading budget" >>)
               [] OTHER -> clog
  /\ UNCHANGED << clientConfig, cpc, caught, thrown, clearCalls >>
  /\ UNCHANGED exceptConnect

\* where the catch block goes with the error of the try block
AfterCatchAlwaysRecover(error) == "recover"
AfterCatch(error) == IF isDatabaseError(error) THEN "recover" ELSE "try"

\* the awaited call of the try block rejects: the catch block, up to
\* api.shutdown() for a database error, to the throw otherwise
TryFail ==
  /\ cpc = "try" /\ outcome = "pending"
  /\ \E error \in StepErrors(cstep) :
       /\ caught' = error
       /\ cpc' = AfterCatch(error)
       /\ IF AfterCatch(error) = "recover"
          THEN /\ clog' = Log(clientConfig.verbose,
                              << "Database error detected. Clearing cache and retrying..." >>)
               /\ cstep' = "shutdown"
               /\ outcome' = "pending"
               /\ thrown' = thrown
          ELSE /\ clog' = clog
               /\ cstep' = cstep
               /\ outcome' = "rejected"
               /\ thrown' = "Failed to connect to ActualBudget: " \o error.message
  /\ UNCHANGED << clientConfig, initCalls, clearCalls, dataDirExists, connected >>
  /\ UNCHANGED exceptConnect

\* the awaited call of the catch block settles: api.shutdown() either way
\* (its rejection is swallowed), then clearCache(), then mkdir, then api.init
RecoverOk ==
  /\ cpc = "recover" /\ outcome = "pending"
  /\ \/ /\ cstep = "shutdown"
        /\ cstep' = "clearCache"
        /\ clearCalls' = clearCalls + 1
        /\ clog' = Log(clientConfig.verbose /\ dataDirExists,
                       << "Clearing cache directory" >>)
        /\ UNCHANGED << cpc, dataDirExists, initCalls >>
     \/ /\ cstep = "clearCache"
        /\ cstep' = "mkdir"
        /\ dataDirExists' = FALSE
        /\ UNCHANGED << cpc, clearCalls, initCalls, clog >>
     \/ /\ cstep = "mkdir"
        /\ cstep' = "init"
        /\ cpc' = "retry"
        /\ dataDirExists' = TRUE
        /\ initCalls' = initCalls + 1
        /\ UNCHANGED << clearCalls, clog >>
  /\ UNCHANGED << clientConfig, outcome, caught, thrown, connected >>
  /\ UNCHANGED exceptConnect

\* rm or mkdir rejects inside the catch block: connect rejects with that error
RecoverFail ==
  /\ cpc = "recover" /\ outcome = "pending"
  /\ \/ cstep = "clearCache" /\ dataDirExists
     \/ cstep = "mkdir"
  /\ \E error \in FsErrors :
       /\ outcome' = "rejected"
       /\ thrown' = error.message
  /\ UNCHANGED << clientConfig, cpc, cstep, caught, initCalls, clearCalls,
                  dataDirExists, clog, connected >>
  /\ UNCHANGED exceptConnect

\* the awaited call of the second attempt fulfils
RetryOk ==
  /\ cpc = "retry" /\ outcome = "pending"
  /\ cstep' = StepAfter(cstep)
  /\ outcome' = IF cstep = "loadPayees" THEN "resolved" ELSE "pending"
  /\ connected' = IF cstep = "downloadBudget" THEN TRUE ELSE connected
  /\ clog' = Log(clientConfig.verbose /\ cstep = "loadPayees",
                 << "Connection successful after cache clear" >>)
  /\ UNCHANGED << clientConfig, cpc, caught, thrown, initCalls, clearCalls,
                  dataDirExists >>
  /\ UNCHANGED exceptConnect

\* the awaited call of the second attempt rejects: connect rejects with it
RetryFail ==
  /\ cpc = "retry" /\ outcome = "pending"
  /\ \E error \in ApiErrors :
       /\ outcome' = "rejected"
       /\ thrown' = error.message
  /\ UNCHANGED << clientConfig, cpc, cstep, caught, initCalls, clearCalls,
                  dataDirExists, clog, connected >>
  /\ UNCHANGED exceptConnect

\* ------------------------------------------------------------ parser.js
\* The field parser.  A field of a parse result is [key, k, s, m]: k is the
\* type of the value ("string", "null", "undefined", "number", "nan"), s its
\* text and m its value in thousandths.  The character "~" stands for the
\* unicode minus sign U+2212.
Field(key, k, s, m) == [key |-> key, k |-> k, s |-> s, m |-> m]
StringField(key, value) ==
  IF value = Null THEN Field(key, "null", "", 0) ELSE Field(key, "string", value, 0)
NumberField(key, x) == Field(key, x.k, "", x.m)
RawNaN == [k |-> "nan", m |-> 0]

Digits == "0123456789"
SignChars == "+~-"
CharAt(str, i) == IF 1 <= i /\ i <= Len(str) THEN SubSeq(str, i, i) ELSE ""
InClass(c, class) == c # "" /\ \E n \in 1..Len(class) : SubSeq(class, n, n) = c
\* the characters of str at the positions a..b that exist
Slice(str, a, b) ==
  LET from == IF a < 1 THEN 1 ELSE a
      to == IF b > Len(str) THEN Len(str) ELSE b
  IN IF from > to THEN "" ELSE SubSeq(str, from, to)
\* the first position from i on whose character is not in class
RECURSIVE SkipClass(_, _, _)
SkipClass(str, i, class) ==
  IF InClass(CharAt(str, i), class) THEN SkipClass(str, i + 1, class) ELSE i
DigitValue(c) == (CHOOSE n \in 1..Len(Digits) : Slice(Digits, n, n) = c) - 1
RECURSIVE DigitsValue(_)
DigitsValue(str) ==
  IF Len(str) = 0 THEN 0
  ELSE 10 * DigitsValue(Slice(str, 1, Len(str) - 1)) + DigitValue(CharAt(str, Len(str)))
\* str.replace(/,/g, '')
RECURSIVE RemoveCommas(_)
RemoveCommas(str) ==
  IF Len(str) = 0 THEN ""
  ELSE (IF CharAt(str, 1) = "," THEN "" ELSE CharAt(str, 1)) \o
       RemoveCommas(Slice(str, 2, Len(str)))
\* parseFloat: the longest numeric prefix after leading blanks and a sign, NaN
\* when there is none; up to three decimals are kept
parseFloat(str) ==
  LET b == SkipClass(str, 1, " ")
      neg == CharAt(str, b) = "-"
      i == IF InClass(CharAt(str, b), "+-") THEN b + 1 ELSE b
      ip == SkipClass(str, i, Digits)
      fp == IF CharAt(str, ip) = "." THEN SkipClass(str, ip + 1, Digits) ELSE ip
      int == Slice(str, i, ip - 1)
      frac == Slice(Slice(str, ip + 1, fp - 1) \o "000", 1, 3)
      m == 1000 * DigitsValue(int) + DigitsValue(frac)
  IN IF ip = i /\ fp <= ip + 1 THEN RawNaN
     ELSE RawNum(IF neg THEN -m ELSE m)

\* value.match(/^([+~-])?\s*\$?([+~-])?\s*([\d,]+(?:\.\d{2})?)\s*([A-Z]{3})?$/):
\* the classes of neighbouring parts are disjoint, so the match is found by
\* one scan from the left
\* ([A-Z]{3})?$ from i8 on
CurrencyEnd(value, sign, i5, i6, i7, i8) ==
  LET i9 == IF \A d \in 0..2 : InClass(CharAt(value, i8 + d), UpperLetters)
            THEN i8 + 3 ELSE i8
  IN [ matched |-> i6 > i5 /\ i9 = Len(value) + 1,
       sign |-> sign,
       number |-> Slice(value, i5, i7 - 1),
       currency |-> Slice(value, i8, i9 - 1) ]
\* (?:\.\d{2})?\s* from i6 on
CurrencyDecimals(value, sign, i5, i6) ==
  LET i7 == IF /\ CharAt(value, i6) = "."
               /\ InClass(CharAt(value, i6 + 1), Digits)
               /\ InClass(CharAt(value, i6 + 2), Digits)
            THEN i6 + 3 ELSE i6
  IN CurrencyEnd(value, sign, i5, i6, i7, SkipClass(value, i7, " "))
\* ([+~-])?\s*([\d,]+ from i3 on; the first sign wins (match[1] || match[2])
CurrencyNumber(value, g1, i3) ==
  LET g2 == IF InClass(CharAt(value, i3), SignChars) THEN CharAt(value, i3) ELSE ""
      i5 == SkipClass(value, i3 + Len(g2), " ")
  IN CurrencyDecimals(value, IF g1 # "" THEN g1 ELSE g2, i5,
                      SkipClass(value, i5, Digits \o ","))
\* \$? at i2
CurrencyDollar(value, g1, i2) ==
  CurrencyNumber(value, g1, IF CharAt(value, i2) = "$" THEN i2 + 1 ELSE i2)
CurrencyMatch(value) ==
  LET g1 == IF InClass(CharAt(value, 1), SignChars) THEN CharAt(value, 1) ELSE ""
  IN CurrencyDollar(value, g1, SkipClass(value, 1 + Len(g1), " "))

Warn(text, value) == [text |-> text, value |-> value]
\* value.match(...) on null or undefined is a TypeError
CurrencyAmount(match, amount) ==
  [ amount |-> IF amount.k = "nan" THEN RawNaN
               ELSE IF match.sign \in {"~", "-"} THEN RawNum(-amount.m) ELSE amount,
    currency |-> IF match.currency = "" THEN None ELSE match.currency,
    warnings |-> <<>>, threw |-> FALSE ]
CurrencyOfMatch(value, match) ==
  IF ~match.matched
  THEN [amount |-> RawNull, currency |-> None, threw |-> FALSE,
        warnings |-> << Warn("Failed to parse currency value", value) >>]
  ELSE CurrencyAmount(match, parseFloat(RemoveCommas(match.number)))
parseCurrencyValue(value) ==
  IF value \in {Null, None}
  THEN [amount |-> RawNull, currency |-> None, warnings |-> <<>>, threw |-> TRUE]
  ELSE CurrencyOfMatch(value, CurrencyMatch(value))

\* value.trim() and value.replace(/\s+/g, ' ') over blanks
RECURSIVE CollapseBlanks(_)
CollapseBlanks(str) ==
  IF Len(str) = 0 THEN ""
  ELSE IF CharAt(str, 1) = " " /\ CharAt(str, 2) = " "
       THEN CollapseBlanks(Slice(str, 2, Len(str)))
       ELSE CharAt(str, 1) \o CollapseBlanks(Slice(str, 2, Len(str)))
Trim(str) ==
  LET a == SkipClass(str, 1, " ")
      ends == { e \in 0..Len(str) : \A n \in (e + 1)..Len(str) : CharAt(str, n) = " " }
      e == CHOOSE e \in ends : \A f \in ends : e <= f
  IN Slice(str, a, e)
\* str.replace(/(\d{4})\s*(\d)/, '$1 $2'): the first run of four digits that
\* is followed, after any blanks, by a digit gets one blank after it
YearRuns(str) ==
  { n \in 1..Len(str) :
      /\ \A d \in 0..3 : InClass(CharAt(str, n + d), Digits)
      /\ InClass(CharAt(str, SkipClass(str, n + 4, " ")), Digits) }
SeparateYear(str) ==
  IF YearRuns(str) = {} THEN str
  ELSE LET n == CHOOSE n \in YearRuns(str) : \A o \in YearRuns(str) : n <= o
       IN Slice(str, 1, n + 3) \o " " \o
          Slice(str, SkipClass(str, n + 4, " "), Len(str))

Months ==
  << "january", "february", "march", "april", "may", "june", "july", "august",
     "september", "october", "november", "december" >>
\* the month at the head of str, as the token MMMM finds it: the full name,
\* else its first three letters, else the first month with that initial
MonthMatch(str) ==
  LET wide == { n \in 1..12 : Slice(str, 1, Len(Months[n])) = Months[n] }
      abbreviated == { n \in 1..12 : Slice(str, 1, 3) = Slice(Months[n], 1, 3) }
      narrow == { n \in 1..12 : Len(str) > 0 /\ CharAt(str, 1) = CharAt(Months[n], 1) }
      First(set) == CHOOSE n \in set : \A o \in set : n <= o
  IN IF wide # {} THEN [month |-> First(wide), length |-> Len(Months[First(wide)])]
     ELSE IF abbreviated # {} THEN [month |-> First(abbreviated), length |-> 3]
     ELSE IF narrow # {} THEN [month |-> First(narrow), length |-> 1]
     ELSE [month |-> 0, length |-> 0]
DaysIn(month, year) ==
  IF month = 2
  THEN (IF year % 4 = 0 /\ (year % 100 # 0 \/ year % 400 = 0) THEN 29 ELSE 28)
  ELSE IF month \in {4, 6, 9, 11} THEN 30 ELSE 31
Pad2(n) == CharAt(Digits, (n \div 10) + 1) \o CharAt(Digits, (n % 10) + 1)
RECURSIVE StringOf(_)
StringOf(n) ==
  IF n < 10 THEN CharAt(Digits, n + 1)
  ELSE StringOf(n \div 10) \o CharAt(Digits, (n % 10) + 1)
\* date-fns parse(str, format, new Date()) followed by isValid, for the
\* formats 'MMMM d, yyyy', 'MMMM d, yyyy h:mm a' and 'MMMM d, yyyyh:mm a':
\* the month in any case, a day of one or two digits, a year of up to
\* four digits, then nothing or a time; an impossible day, hour or minute
\* gives an invalid date
DateOfParts(low, found, d0, d1, y0, ys, y1, h0, h1) ==
  LET month == found.month
      day == DigitsValue(Slice(low, d0, d1 - 1))
      year == DigitsValue(Slice(low, y0, y1 - 1))
      hour == DigitsValue(Slice(low, h0, h1 - 1))
      minute == DigitsValue(Slice(low, h1 + 1, h1 + 2))
      timed == /\ h1 \in {h0 + 1, h0 + 2}
               /\ CharAt(low, h1) = ":"
               /\ InClass(CharAt(low, h1 + 1), Digits)
               /\ InClass(CharAt(low, h1 + 2), Digits)
               /\ CharAt(low, h1 + 3) = " "
               /\ Slice(low, h1 + 4, Len(low)) \in {"am", "pm"}
               /\ hour \in 1..12 /\ minute \in 0..59
      shaped == /\ month # 0
                /\ CharAt(low, d0 - 1) = " "
                /\ InClass(CharAt(low, d0), Digits)
                /\ CharAt(low, d1) = "," /\ CharAt(low, d1 + 1) = " "
                /\ ys # {}
  IN IF shaped /\ (y1 = Len(low) + 1 \/ timed) /\ day \in 1..DaysIn(month, year)
     THEN StringOf(year) \o "-" \o Pad2(month) \o "-" \o Pad2(day)
     ELSE "Invalid Date"
DateAfterYear(low, found, d0, d1, y0, ys, y1) ==
  LET h0 == IF CharAt(low, y1) = " " THEN y1 + 1 ELSE y1
  IN DateOfParts(low, found, d0, d1, y0, ys, y1, h0, SkipClass(low, h0, Digits))
DateYear(low, found, d0, d1, y0, ys) ==
  DateAfterYear(low, found, d0, d1, y0, ys,
                IF ys = {} THEN y0 ELSE y0 + (CHOOSE n \in ys : \A o \in ys : o <= n))
DateAfterDay(low, found, d0, d1) ==
  DateYear(low, found, d0, d1, d1 + 2,
           { n \in 1..4 : \A d \in 0..(n - 1) : InClass(CharAt(low, d1 + 2 + d), Digits) })
DateAfterMonth(low, found) ==
  LET d0 == found.length + 2
  IN DateAfterDay(low, found, d0,
                  IF InClass(CharAt(low, d0 + 1), Digits) THEN d0 + 2 ELSE d0 + 1)
DateLower(low) == DateAfterMonth(low, MonthMatch(low))
DateFnsParse(str) == DateLower(toLowerCase(str))

\* the day the parser runs on, and the day before
Today == "2024-03-15"
Yesterday == "2024-03-14"
DateOf(value, normalizedValue, parsedDate) ==
  IF normalizedValue = "today" THEN [date |-> Today, warnings |-> <<>>]
  ELSE IF normalizedValue = "yesterday" THEN [date |-> Yesterday, warnings |-> <<>>]
  ELSE IF parsedDate # "Invalid Date" THEN [date |-> parsedDate, warnings |-> <<>>]
  ELSE [date |-> Null, warnings |-> << Warn("Failed to parse date", value) >>]
parseDate(value) ==
  IF ~Truthy(value) THEN [date |-> Null, warnings |-> <<>>]
  ELSE DateOf(value, toLowerCase(Trim(value)),
              DateFnsParse(Trim(SeparateYear(CollapseBlanks(value)))))

simpleFields ==
  << << "account", "account" >>, << "from", "from" >>, << "to", "to" >>,
     << "status", "status" >>, << "type", "type" >>, << "email", "email" >>,
     << "message", "message" >>, << "entered quantity", "enteredQuantity" >>,
     << "filled quantity", "filledQuantity" >>,
     << "account number", "accountNumber" >>,
     << "transaction id", "transactionId" >> >>
dateFields == { "date", "submitted", "filled" }
amountFields == { "total", "amount", "total value", "total cost", "estimated amount" }
Returned(fields, warnings) == [fields |-> fields, warnings |-> warnings, threw |-> FALSE]
Threw == [fields |-> <<>>, warnings |-> <<>>, threw |-> TRUE]
CurrencyField(key, currency) ==
  IF currency = None THEN Field(key, "undefined", "", 0)
  ELSE Field(key, "string", currency, 0)
NegAbs(x) == RawNum(IF x.m < 0 THEN x.m ELSE -x.m)

\* the branches of parseRow for a label in lower case
RowOf(normalizedName, value, parsed, date) ==
  LET simple == { n \in 1..Len(simpleFields) : simpleFields[n][1] = normalizedName }
  IN IF simple # {}
     THEN Returned(<< StringField(simpleFields[CHOOSE n \in simple : TRUE][2], value) >>,
                   <<>>)
     ELSE IF normalizedName \in dateFields
     THEN Returned(<< StringField(normalizedName, date.date) >>, date.warnings)
     ELSE IF normalizedName = "original amount"
     THEN IF ~Truthy(value) THEN Returned(<<>>, <<>>)
          ELSE IF parsed.threw THEN Threw
          ELSE IF parsed.amount.k = "null"
          THEN Returned(<<>>, parsed.warnings \o
                              << Warn("Invalid original amount", value) >>)
          ELSE Returned(<< NumberField("originalAmount", parsed.amount),
                           CurrencyField("originalCurrency", parsed.currency) >>,
                        parsed.warnings)
     ELSE IF normalizedName = "exchange rate"
     THEN IF Truthy(value)
          THEN Returned(<< NumberField("exchangeRate", parseFloat(value)) >>, <<>>)
          ELSE Returned(<<>>, <<>>)
     ELSE IF normalizedName \in amountFields
     THEN IF ~Truthy(value) THEN Returned(<<>>, <<>>)
          ELSE IF parsed.threw THEN Threw
          ELSE IF parsed.amount.k = "null"
          THEN Returned(<< Field("amount", "null", "", 0),
                           Field("amountCurrency", "undefined", "", 0) >>,
                        parsed.warnings \o << Warn("Invalid total/amount", value) >>)
          ELSE Returned(<< NumberField("amount",
                             IF normalizedName = "total cost" /\ parsed.amount.k = "number"
                             THEN NegAbs(parsed.amount) ELSE parsed.amount),
                           CurrencyField("amountCurrency", parsed.currency) >>,
                        parsed.warnings)
     ELSE IF includes(normalizedName, "spend rewards")
     THEN IF ~Truthy(value) THEN Returned(<<>>, <<>>)
          ELSE IF parsed.threw THEN Threw
          ELSE IF parsed.amount.k = "null"
          THEN Returned(<<>>, parsed.warnings \o
                              << Warn("Invalid spend rewards", value) >>)
          ELSE Returned(<< NumberField("spendRewards", parsed.amount),
                           CurrencyField("spendRewardsCurrency", parsed.currency) >>,
                        parsed.warnings)
     ELSE Returned(<<>>, <<>>)
parseRow(name, value) ==
  RowOf(toLowerCase(name), value, parseCurrencyValue(value), parseDate(value))

\* the labels and the texts of the scraped rows parseRow is run on
FieldNames ==
  { "Account", "Transaction ID", "Date", "Filled", "Amount", "Total Cost",
    "Original Amount", "Exchange Rate", "Spend Rewards Earned", "Reference" }
FieldValues ==
  { Null, "", "Test", "$50.00", "~ $50.00", "$-1,234.56 CAD", "+ $5.00",
    "invalid amount", "$,", "1.5", "March 1, 2024", "march 12, 2024 3:45 pm",
    "February 30, 2024", " Today", "invalid date" }

ParseInit(name, value) ==
  /\ fieldName = name
  /\ fieldValue = value
  /\ parsedRow = <<>>
ParseRow ==
  /\ parsedRow = <<>>
  /\ parsedRow' = << parseRow(fieldName, fieldValue) >>
  /\ UNCHANGED << fieldName, fieldValue >>
  /\ UNCHANGED exceptParse

\* ------------------------------------------- two records of one scrape
\* Two raw records go through transformTransaction and each result gets its
\* imported_id from generateImportedId, as convertToImportFormat does it.
RawTxWithId(type, amount, side, transactionId) ==
  [RawTx(type, amount, side) EXCEPT !.transactionId = transactionId]
PairDomain ==
  { RawTxWithId(y, a, d, i) :
      y \in {"deposit", "transfer"}, a \in {RawNum(50000), RawNum(-75250)},
      d \in { << "Checking", None, None >>, << "Checking", "Checking", "Savings" >> },
      i \in {"t1", "t2", None} }
ImportedIdOf(t) == generateImportedId(transformTransaction(t, Mapped(MappedNames)))
IdsOfPair ==
  /\ importedIds = <<>>
  /\ importedIds' = << ImportedIdOf(rawPair[1]), ImportedIdOf(rawPair[2]) >>
  /\ UNCHANGED rawPair
  /\ UNCHANGED exceptPair

\* ------------------------------------------------------ specifications
\* Each specification runs one part of the program and holds the variables
\* of the other parts at rest.
NoTx == Tx(None, None, None, None, 0, FALSE, None)
IdIdle == hx = NoTx /\ hy = NoTx /\ hid = <<>>
TransformIdle == raw = <<>> /\ out = <<>>
EngineIdle ==
  /\ connected = FALSE /\ transactions = <<>> /\ pc = "idle" /\ byAccount = <<>>
  /\ nextAcct = 0 /\ inflight = {} /\ results = EmptyResults
  /\ ledger = [a \in SinkKeys |-> <<>>] /\ runs = 0 /\ callLog = <<>>
  /\ interrupted = FALSE
ResolveIdle == wsAccountName = "" /\ config = NoConfig /\ resolved = <<>>
OrchIdle == OrchInit(<<>>, Options(TRUE, FALSE, <<>>, FALSE))
ValidateIdle == transaction = NoTx /\ validation = <<>>
ConnectIdle == ConnectInit(FALSE, FALSE)
PairIdle == rawPair = <<>> /\ importedIds = <<>>
ParseIdle == ParseInit("", Null)

\* ActualClient.importTransactions against the sink
Init == InitEngine /\ IdIdle /\ TransformIdle /\ ResolveIdle /\ OrchIdle /\ ValidateIdle /\ ConnectIdle /\ ParseIdle /\ PairIdle
Next == ImportCall \/ Rerun \/ BatchBegin \/ BatchResolve \/ BatchReject \/ Crash
Spec == Init /\ [][Next]_vars

\* generateImportedId on two canonical transactions
InitId ==
  /\ hx \in CanonDomain
  /\ hy \in CanonDomain
  /\ hid = <<>>
  /\ EngineIdle /\ TransformIdle /\ ResolveIdle /\ OrchIdle /\ ValidateIdle /\ ConnectIdle /\ ParseIdle /\ PairIdle
NextId == HashBoth
SpecId == InitId /\ [][NextId]_vars

\* transformTransaction on one raw record
InitTransform ==
  /\ raw \in RawDomain
  /\ out = <<>>
  /\ EngineIdle /\ IdIdle /\ ResolveIdle /\ OrchIdle /\ ValidateIdle /\ ConnectIdle /\ ParseIdle /\ PairIdle
NextTransform == Transform \/ TransformNoPredicate
SpecTransform == InitTransform /\ [][NextTransform]_vars

\* resolveAccount on one name and one configuration
InitResolve ==
  /\ wsAccountName \in AccountNames
  /\ config \in Configs
  /\ resolved = <<>>
  /\ EngineIdle /\ IdIdle /\ TransformIdle /\ OrchIdle /\ ValidateIdle /\ ConnectIdle /\ ParseIdle /\ PairIdle
NextResolve == Resolve
SpecResolve == InitResolve /\ [][NextResolve]_vars

\* the import orchestrator on one run
InitOrch ==
  /\ \E txs \in SeqsUpTo(OrchRaw, MaxRaw), opts \in OrchOptions : OrchInit(txs, opts)
  /\ EngineIdle /\ IdIdle /\ TransformIdle /\ ResolveIdle /\ ValidateIdle /\ ConnectIdle /\ ParseIdle /\ PairIdle
NextOrch ==
  OrchPrepare \/ OrchConnect \/ OrchAccount \/ OrchValidate \/ OrchDryRun
    \/ OrchImportGroup \/ OrchFinish \/ OrchAdjust
SpecOrch == InitOrch /\ [][NextOrch]_vars

\* validateTransaction on one canonical transaction
InitValidate ==
  /\ transaction \in ValidateDomain
  /\ validation = <<>>
  /\ EngineIdle /\ IdIdle /\ TransformIdle /\ ResolveIdle /\ OrchIdle /\ ConnectIdle /\ ParseIdle /\ PairIdle
NextValidate == Validate
SpecValidate == InitValidate /\ [][NextValidate]_vars

\* ActualClient.connect on a client that is not connected
InitConnect ==
  /\ \E verbose \in BOOLEAN, exists \in BOOLEAN : ConnectInit(verbose, exists)
  /\ EngineIdle /\ IdIdle /\ TransformIdle /\ ResolveIdle /\ OrchIdle /\ ValidateIdle /\ ParseIdle /\ PairIdle
NextConnect ==
  ConnectCall \/ TryOk \/ TryFail \/ RecoverOk \/ RecoverFail \/ RetryOk
    \/ RetryFail
SpecConnect == InitConnect /\ [][NextConnect]_vars

\* parseRow on one scraped row
InitParse ==
  /\ \E name \in FieldNames, value \in FieldValues : ParseInit(name, value)
  /\ EngineIdle /\ IdIdle /\ TransformIdle /\ ResolveIdle /\ OrchIdle /\ ValidateIdle
  /\ ConnectIdle /\ PairIdle
NextParse == ParseRow
SpecParse == InitParse /\ [][NextParse]_vars

\* two raw records on their way to their imported_id
InitPair ==
  /\ \E x \in PairDomain, y \in PairDomain : rawPair = << x, y >>
  /\ importedIds = <<>>
  /\ EngineIdle /\ IdIdle /\ TransformIdle /\ ResolveIdle /\ OrchIdle /\ ValidateIdle
  /\ ConnectIdle /\ ParseIdle
NextPair == IdsOfPair
SpecPair == InitPair /\ [][NextPair]_vars

\* ------------------------------------------------------------ claims
\* the grouped wire records, each with the key of its group
GroupedEntries ==
  UNION { { [key |-> byAccount[k].key, e |-> byAccount[k].entries[j]] :
              j \in 1..Len(byAccount[k].entries) } : k \in 1..Len(byAccount) }
\* the positions of the wire records made for the transaction at index i
PositionsOf(i) ==
  UNION { { << k, j >> : j \in { n \in 1..Len(byAccount[k].entries) :
                                    byAccount[k].entries[n].index = i } } :
          k \in 1..Len(byAccount) }
Grouped == runs > 0 /\ Len(transactions) > 0
TxAt(i) == transactions[i + 1]
BatchError == "Batch import failed for account"

\* C1: every mirror wire record has the negated amount of the primary wire
\* record of the same transaction, and the primary's imported_id followed by
\* "_mirror".
C1_MirrorNegatesPrimary ==
  \A m \in GroupedEntries :
    m.e.isMirrorTransfer =>
      /\ \E p \in GroupedEntries : p.e.index = m.e.index /\ ~p.e.isMirrorTransfer
      /\ \A p \in GroupedEntries :
           (p.e.index = m.e.index /\ ~p.e.isMirrorTransfer) =>
             /\ m.e.import.amount = Neg(p.e.import.amount)
             /\ p.e.import.amount = TxAt(p.e.index).Amount
             /\ m.e.import.imported_id = p.e.import.imported_id \o "_mirror"
             /\ p.e.import.imported_id = generateImportedId(TxAt(p.e.index))
C1_Witness ==
  /\ pc = "done"
  /\ \E m \in GroupedEntries :
       /\ m.e.isMirrorTransfer /\ m.e.import.amount = Num(500)
       /\ ExistsIn(ledger[m.key], m.e.import.imported_id)

\* C2 (as claimed): the mirror leg carries the transfer payee of the source
\* account (the account the primary leg is posted to) and the primary leg the
\* transfer payee of the destination account.
C2_MirrorPayeeIsSource ==
  \A m \in GroupedEntries :
    m.e.isMirrorTransfer =>
      \A p \in GroupedEntries :
        (p.e.index = m.e.index /\ ~p.e.isMirrorTransfer) =>
          /\ p.e.import.payee = findTransferPayee(m.key).id
          /\ m.e.import.payee = findTransferPayee(p.key).id

\* C3 (as claimed): every transaction flagged as a transfer gets exactly two
\* wire records.
C3_AlwaysTwoLegs ==
  Grouped =>
    \A i \in 0..(Len(transactions) - 1) :
      TxAt(i).isTransfer => Cardinality(PositionsOf(i)) = 2
\* C3 (amended): a flagged transfer whose own account resolves gets exactly two
\* wire records, the primary under the source account and the mirror under
\* the target account, when the target's transfer payee is in the directory,
\* and exactly one, the primary, when it is not.
C3_TwoLegsWhenPayeeFound ==
  Grouped =>
    \A i \in 0..(Len(transactions) - 1) :
      LET t == TxAt(i)
          mine == { g \in GroupedEntries : g.e.index = i }
          payeeKnown == \E p \in Payees : p.transfer_acct = t.transferTo
      IN (t.isTransfer /\ ResolveAccountId(t).ok) =>
           /\ Cardinality(PositionsOf(i)) = IF payeeKnown THEN 2 ELSE 1
           /\ \E g \in mine : ~g.e.isMirrorTransfer /\ g.key = ResolveAccountId(t).id
           /\ payeeKnown =>
                \E g \in mine : g.e.isMirrorTransfer /\ g.key = t.transferTo
           /\ ~payeeKnown => \A g \in mine : ~g.e.isMirrorTransfer
C3_Witness ==
  /\ pc = "done"
  /\ \E i \in 0..(Len(transactions) - 1) :
       TxAt(i).isTransfer /\ Cardinality(PositionsOf(i)) = 2
  /\ \E i \in 0..(Len(transactions) - 1) :
       TxAt(i).isTransfer /\ Cardinality(PositionsOf(i)) = 1

\* C4: a flagged transfer whose target has no transfer payee is posted as the
\* ordinary record of the same transaction (payee_name, no payee id), without a
\* mirror, and nothing is failed at grouping except transactions whose own
\* account does not resolve.
UnresolvedTarget(t) ==
  /\ t.isTransfer /\ Truthy(t.transferTo)
  /\ ~ \E p \in Payees : p.transfer_acct = t.transferTo
C4_FallbackToOrdinary ==
  Grouped =>
    /\ \A i \in 0..(Len(transactions) - 1) :
         LET t == TxAt(i)
             mine == { g \in GroupedEntries : g.e.index = i }
         IN (UnresolvedTarget(t) /\ ResolveAccountId(t).ok) =>
              /\ Cardinality(PositionsOf(i)) = 1
              /\ \A g \in mine :
                   /\ ~g.e.isMirrorTransfer
                   /\ g.e.import.payee = None
                   /\ Truthy(t.Payee) => g.e.import.payee_name = t.Payee
                   /\ g.e.import.amount = t.Amount
                   /\ g.e.import.notes = t.Notes
              /\ \A k \in 1..Len(results.failed) :
                   results.failed[k].index = i => results.failed[k].error = BatchError
    /\ \A k \in 1..Len(results.failed) :
         results.failed[k].error # BatchError =>
           ~ResolveAccountId(TxAt(results.failed[k].index)).ok
C4_Witness ==
  /\ pc = "done" /\ Len(transactions) = 2
  /\ UnresolvedTarget(TxAt(0)) /\ ~TxAt(1).isTransfer
  /\ Len(results.failed) = 0
  /\ Len(results.imported) = 2

\* the indices of the records grouped under the accounts whose batch call was
\* rejected, in the order of the calls
RECURSIVE IndicesOfRejected(_)
IndicesOfRejected(k) ==
  IF k > Len(callLog) THEN <<>>
  ELSE LET es == byAccount[callLog[k].slot].entries
           here == IF callLog[k].outcome = "rejected"
                   THEN [ n \in 1..Len(es) |-> es[n].index ] ELSE <<>>
       IN here \o IndicesOfRejected(k + 1)
RECURSIVE ImportedOfResolved(_)
ImportedOfResolved(k) ==
  IF k > Len(callLog) THEN <<>>
  ELSE callLog[k].imported \o ImportedOfResolved(k + 1)
BatchFailedIndices ==
  LET f == SelectSeq(results.failed, LAMBDA x : x.error = BatchError)
  IN [ n \in 1..Len(f) |-> f[n].index ]

\* C5: a rejected batch call fails exactly the records grouped under its
\* account; the calls for all other accounts are still made and what they
\* imported is reported unchanged.
C5_FailureIsolatedToAccount ==
  Grouped =>
    /\ BatchFailedIndices = IndicesOfRejected(1)
    /\ results.imported = ImportedOfResolved(1)
    /\ results.summary.errors = Len(results.failed)
    /\ pc = "done" =>
         /\ Len(callLog) = Len(byAccount)
         /\ \A k \in 1..Len(callLog) : callLog[k].slot = k
C5_Witness ==
  /\ pc = "done" /\ Len(callLog) = 2
  /\ callLog[1].outcome = "rejected" /\ callLog[2].outcome = "resolved"
  /\ Len(results.failed) = 1 /\ Len(results.imported) = 1

\* C6: at most one sink batch call is pending, and while one is pending every
\* call issued before it has settled.
C6_SequentialBatchCalls ==
  /\ Cardinality(inflight) <= 1
  /\ inflight # {} => (pc = "await" /\ Len(callLog) = nextAcct - 1)
  /\ inflight = {} => Len(callLog) = nextAcct
C6_Witness ==
  /\ pc = "await" /\ nextAcct = 2 /\ Len(callLog) = 1
  /\ Cardinality(inflight) = 1

\* C7: every wire record is grouped under its ledger account (the primary
\* under the resolved account id, the mirror under the transfer target), no
\* account has two groups, and a finished invocation made exactly one batch
\* call per account that has a record.
C7_OneBatchCallPerAccount ==
  Grouped =>
    /\ \A a, b \in 1..Len(byAccount) : byAccount[a].key = byAccount[b].key => a = b
    /\ \A k \in 1..Len(byAccount) : Len(byAccount[k].entries) >= 1
    /\ \A g \in GroupedEntries :
         g.key = IF g.e.isMirrorTransfer THEN TxAt(g.e.index).transferTo
                 ELSE ResolveAccountId(TxAt(g.e.index)).id
    /\ \A a, b \in 1..Len(callLog) :
         callLog[a].accountId = callLog[b].accountId => a = b
    /\ \A c \in inflight : \A k \in 1..Len(callLog) :
         callLog[k].accountId # c.accountId
    /\ pc = "done" =>
         { callLog[k].accountId : k \in 1..Len(callLog) } =
           { g.key : g \in GroupedEntries }
C7_Witness ==
  /\ pc = "done" /\ Len(transactions) = 2 /\ Len(callLog) = 2
  /\ \E k \in 1..2 : Len(byAccount[k].entries) = 2
  /\ \E g \in GroupedEntries : g.e.isMirrorTransfer

\* C8: with the sink skipping known imported_ids, no account ever holds an
\* imported_id twice, and when an invocation finishes with every batch call
\* resolved every leg is in the ledger of its account exactly once, also
\* after an earlier run was cut between two batch calls.
CountIn(led, importedId) ==
  Cardinality({ k \in 1..Len(led) : led[k].imported_id = importedId })
AllResolved ==
  /\ pc = "done"
  /\ \A k \in 1..Len(callLog) : callLog[k].outcome = "resolved"
C8_ReimportIdempotent ==
  /\ \A a \in SinkKeys : \A k \in 1..Len(ledger[a]) :
       CountIn(ledger[a], ledger[a][k].imported_id) = 1
  /\ (Grouped /\ AllResolved) =>
       \A g \in GroupedEntries :
         CountIn(ledger[g.key], g.e.import.imported_id) = 1
  /\ (Grouped /\ AllResolved) =>
       \A a \in SinkKeys : \A k \in 1..Len(ledger[a]) :
         \E g \in GroupedEntries :
           g.key = a /\ g.e.import.imported_id = ledger[a][k].imported_id
C8_Witness ==
  /\ Grouped /\ AllResolved /\ interrupted /\ runs = 2
  /\ \E g \in GroupedEntries : g.e.isMirrorTransfer /\ g.key # "acc1"
  /\ Len(results.updated) >= 1 /\ Len(results.imported) >= 1

\* C9: two canonical transactions get the same imported_id exactly when they
\* agree on Account, Amount, Date, Notes and Payee; no other field matters.
SameFive(x, y) ==
  /\ x.Account = y.Account /\ x.Amount = y.Amount /\ x.Date = y.Date
  /\ x.Notes = y.Notes /\ x.Payee = y.Payee
C9_IdIffFiveFieldsAgree ==
  hid # <<>> => ((hid[1] = hid[2]) <=> SameFive(hx, hy))
C9_Witness ==
  /\ hid # <<>> /\ hid[1] = hid[2] /\ hx # hy
  /\ hx.Notes = "Deposit [t1]" /\ hx.Amount = NaN /\ hx.Date = Null

\* JavaScript's x <= 0, which is false for NaN
LeqZero(x) == ~x.nan /\ x.v <= 0
HasDebitKeyword(type) ==
  \E w \in { "withdrawal", "withdraw", "payment", "purchase", "transfer_out",
             "fee", "interest_charge" } : includes(toLowerCase(OrEmpty(type)), w)

\* C10 (as claimed): whenever the type contains a debit keyword the output
\* Amount is <= 0.
C10_DebitTypeNeverPositive ==
  (out # <<>> /\ HasDebitKeyword(raw.type)) => LeqZero(out[1].Amount)
\* C10 (amended): whenever the type contains a debit keyword and the raw amount
\* is not empty, null or undefined, the output Amount is <= 0 (a positive
\* literal is negated: 50.00 gives -5000); for a missing amount it is NaN.
C10_DebitTypeNeverPositiveIfAmount ==
  (out # <<>> /\ HasDebitKeyword(raw.type)) =>
    /\ raw.amount.k \in {"number", "string"} => LeqZero(out[1].Amount)
    /\ raw.amount.k \in {"empty", "null", "undefined"} => out[1].Amount = NaN
    /\ raw.amount = RawStr(50000) => out[1].Amount = Num(-5000)
C10_Witness ==
  /\ out # <<>> /\ raw.type = "Payment" /\ raw.amount = RawStr(50000)
  /\ out[1].Amount = Num(-5000)

\* C11: whenever the raw amount is negative (a number or a numeric string) the
\* output Amount is <= 0, whatever the type: a negative amount on a credit
\* type such as deposit stays a debit, -50.00 on "deposit" gives -5000.
C11_RawNegativeStaysDebit ==
  (out # <<>> /\ raw.amount.k \in {"number", "string"} /\ raw.amount.m < 0) =>
    /\ LeqZero(out[1].Amount)
    /\ raw.amount.m = -50000 => out[1].Amount = Num(-5000)
C11_Witness ==
  /\ out # <<>> /\ raw.type = "deposit" /\ raw.amount = RawStr(-50000)
  /\ out[1].Amount = Num(-5000)

\* the positions of the valid mappings (both fields present) that match the name
MatchingMappings ==
  { i \in 1..Len(config.accounts) :
      /\ config.present
      /\ Truthy(config.accounts[i].wsAccountName)
      /\ Truthy(config.accounts[i].actualAccountId)
      /\ MatchType(config.accounts[i].wsAccountName, wsAccountName) # None }

\* C15: resolveAccount returns the mapping that comes first in declaration
\* order among the valid mappings whose pattern matches the name, never a
\* later one, and returns null exactly when no valid mapping matches.
C15_FirstMatchWins ==
  resolved # <<>> =>
    IF MatchingMappings = {} THEN resolved[1] = NotResolved
    ELSE LET first == CHOOSE i \in MatchingMappings :
                        \A j \in MatchingMappings : i <= j
             account == config.accounts[first]
         IN /\ resolved[1].accountId = account.actualAccountId
            /\ resolved[1].matchedPattern = account.wsAccountName
            /\ resolved[1].accountName = wsAccountName
            /\ resolved[1].matchType =
                 MatchType(account.wsAccountName, wsAccountName)
C15_Witness ==
  /\ resolved # <<>> /\ wsAccountName = "Joint Chequing - Joint"
  /\ config = Config(<< Mapping("Joint Chequing( - Joint)?", "id1"),
                        Mapping(".*Joint.*", "id2") >>)
  /\ MatchingMappings = {1, 2}
  /\ resolved[1].accountId = "id1"

\* C19 (as claimed): a name is resolved, as an exact match, by the valid mapping
\* whose wsAccountName is the identical string, brackets or not, also when a
\* mapping that does not match precedes it.
C19_IdenticalNameResolvedExactly ==
  resolved # <<>> =>
    \A i \in 1..Len(config.accounts) :
      ( /\ config.accounts[i].wsAccountName = wsAccountName
        /\ Truthy(config.accounts[i].actualAccountId)
        /\ \A j \in 1..(i - 1) : j \notin MatchingMappings ) =>
        /\ resolved[1].accountId = config.accounts[i].actualAccountId
        /\ resolved[1].matchType = "exact"

\* C14 (as claimed): the output is marked as a transfer exactly when raw from
\* and to are both present and different, a predicate is supplied and both
\* names satisfy it; otherwise it carries no transfer metadata.
C14_TransferIffDistinctMapped ==
  out # <<>> =>
    /\ out[1].isTransfer <=>
         ( /\ Truthy(raw.from) /\ Truthy(raw.to) /\ raw.from # raw.to
           /\ out[2].present
           /\ raw.from \in out[2].mapped /\ raw.to \in out[2].mapped )
    /\ ~out[1].isTransfer => out[1].transferTo = None

\* C18 (as claimed): an amount that ends in half a cent is rounded to the cent
\* of larger magnitude, for both signs: 10.555 gives 1056 cents and -10.555
\* gives -1056.
C18_HalfAwayFromZero ==
  (out # <<>> /\ raw.amount.k \in {"number", "string"}) =>
    /\ Abs(raw.amount.m) % 10 = 5 =>
         Abs(out[1].Amount.v) = (Abs(raw.amount.m) + 5) \div 10
    /\ (raw.amount.m = 10555 /\ ~isDebitTransaction(raw)) => out[1].Amount = Num(1056)
    /\ raw.amount.m = -10555 => out[1].Amount = Num(-1056)

\* the wire records the sink received for the raw record dated d (every raw
\* record of a run has its own date, which the pipeline passes through)
SunkFor(d) ==
  UNION { { sinkCalls[c].importData[k] :
              k \in { n \in 1..Len(sinkCalls[c].importData) :
                        sinkCalls[c].importData[n].date = d } } :
          c \in 1..Len(sinkCalls) }

\* C12 (as claimed): a raw record whose amount is empty, null or undefined is
\* never turned into a zero: no wire record with amount 0 reaches the sink
\* on its behalf.
C12_MissingAmountNeverZero ==
  \A i \in 1..Len(wsTransactions) :
    AmountMissing(wsTransactions[i].amount) =>
      \A rec \in SunkFor(wsTransactions[i].date) : rec.amount # Num(0)

\* C13 (as claimed): validateTransaction returns isValid = false for every
\* canonical transaction whose Amount is not a finite number or whose Date
\* is missing.
C13_ValidatorRejectsNonFinite ==
  validation # <<>> =>
    ( ( \/ TypeOf(transaction.Amount) # "number"
        \/ transaction.Amount.nan
        \/ ~Truthy(transaction.Date) ) => ~validation[1].isValid )

\* the accounts without a mapping that have a transaction of the run
MappedWsNames == { n \in WsNames : isAccountMapped(n) }
MappedIds == { resolveAccount(n, fullConfig).accountId : n \in MappedWsNames }
UnmappedWithTransactions ==
  { wsTransactions[i].account : i \in { n \in 1..Len(wsTransactions) :
      /\ Truthy(wsTransactions[n].account)
      /\ wsTransactions[n].account \notin MappedWsNames } }
SkipReported(a) ==
  \E k \in 1..Len(console) : console[k] = Say("skipping unmapped account", a)
NeverSubmitsUnmapped ==
  /\ \A b \in 1..Len(submitted) : \A k \in 1..Len(submitted[b]) :
       submitted[b][k].Account \in MappedWsNames
  /\ \A c \in 1..Len(sinkCalls) : sinkCalls[c].accountId \in MappedIds
\* the account is among those the run works on: every account, or with
\* --account the requested ones
Requested(a) ==
  \/ Len(options.account) = 0
  \/ \E k \in 1..Len(options.account) :
       toLowerCase(options.account[k]) = toLowerCase(a)

\* the run is over and did not stop at a rejected createClient
RunOver == opc = "done" /\ ~(orchOutcome = "threw" /\ client = "null")
SettledAfter(database) ==
  /\ outcome \in {"resolved", "rejected"}
  /\ caught # NoError
  /\ isDatabaseError(caught) = database

C21_FailureIsWrapped ==
  outcome = "rejected" =>
    \E error \in ApiErrors \cup FsErrors :
      thrown = "Failed to connect to ActualBudget: " \o error.message

\* C29: when connect has rejected, the client is not connected (so that
\* importTransactions and sync refuse it and no session is left open).
C29_RejectedMeansNotConnected ==
  outcome = "rejected" => ~connected

\* the texts of FieldValues that are amounts of money, and those that are dates
CurrencyTexts == { "$50.00", "~ $50.00", "$-1,234.56 CAD", "+ $5.00" }
DateTexts == { "March 1, 2024", "march 12, 2024 3:45 pm", " Today" }
\* C23: parseRow returns normally for every label and every text or null; for
\* an amount label a text that is not an amount of money gives amount = null,
\* and for a date label a text that is not a date gives null.
C23_SoftParseNeverThrows ==
  parsedRow # <<>> =>
    /\ ~parsedRow[1].threw
    /\ ( /\ toLowerCase(fieldName) \in amountFields
         /\ Truthy(fieldValue)
         /\ fieldValue \notin CurrencyTexts ) =>
           /\ Len(parsedRow[1].fields) = 2
           /\ parsedRow[1].fields[1] = Field("amount", "null", "", 0)
    /\ ( /\ toLowerCase(fieldName) \in dateFields
         /\ fieldValue \notin DateTexts ) =>
           parsedRow[1].fields = << Field(toLowerCase(fieldName), "null", "", 0) >>

\* C26: two raw transactions with different transactionId values never get
\* the same imported_id.
C26_DistinctIdsForDistinctTransactions ==
  ( /\ importedIds # <<>>
    /\ Truthy(rawPair[1].transactionId) /\ Truthy(rawPair[2].transactionId)
    /\ rawPair[1].transactionId # rawPair[2].transactionId ) =>
      importedIds[1] # importedIds[2]

\* the imported_id of the wire records made from transaction t
WireIdsOf(t) == { generateImportedId(t), generateImportedId(t) \o "_mirror" }
\* the ledger record behind e.actualId was made from the transaction of e
PairedWithItsSource(e) ==
  \E acct \in SinkKeys : \E n \in 1..Len(ledger[acct]) :
    /\ LedgerId(acct, n) = e.actualId
    /\ ledger[acct][n].imported_id \in WireIdsOf(transactions[e.index + 1])
\* C27: every entry of results.imported and of results.updated pairs a ledger
\* id with the input transaction whose wire record produced that ledger
\* record.
C27_ResultsPairLedgerIdWithSource ==
  /\ \A k \in 1..Len(results.imported) : PairedWithItsSource(results.imported[k])
  /\ \A k \in 1..Len(results.updated) : PairedWithItsSource(results.updated[k])

\* the positions of the input transactions named by a list of result entries
IndicesOf(entries) == { entries[k].index : k \in 1..Len(entries) }
\* C28: in the result of one importTransactions call no input transaction is
\* reported both as imported and as failed.
C28_NeverImportedAndFailed ==
  IndicesOf(results.imported) \cap IndicesOf(results.failed) = {}

\* C24: every raw record that reaches the transformer has an amount that is a
\* number or null, never a string, the records the orchestrator rewrites when
\* it moves a transfer to its source account included (the scraped records
\* being as the parser leaves them: a number or null)
ParserAmount(a) == a.k \in {"number", "null"}
C24_AmountNumberOrNull ==
  (\A k \in 1..Len(wsTransactions) : ParserAmount(wsTransactions[k].amount)) =>
    \A g \in 1..Len(regular) : \A k \in 1..Len(regular[g].entries) :
      ParserAmount(regular[g].entries[k].amount)

\* C22: in a dry run nothing is changed: no ledger client is created or
\* connected, no batch reaches client.importTransactions or the sink, nothing
\* is synced, the ledger stays as it was and the configuration is not saved
C22_DryRunChangesNothing ==
  options.dryRun =>
    /\ client = "null"
    /\ effects = <<>>
    /\ submitted = <<>> /\ sinkCalls = <<>>
    /\ oledger = [a \in SinkKeys |-> <<>>]
C22_Witness ==
  /\ options.dryRun /\ opc = "done" /\ orchOutcome = "returned"
  /\ Len(validatedGroups) > 0
  /\ \E k \in 1..Len(console) : console[k] = Say("table", None)

\* C30: when the scrape kept its browser context open for the balance
\* adjustment (--adjust-balances, not a dry run), the context is closed by
\* the time importTransactions has returned or thrown
C30_ContextClosedWhenRunEnds ==
  (opc = "done" /\ keepContextOpen(options)) => browserContext = "closed"

\* C25: a detected transfer between two different accounts, recorded under
\* its source account, goes to the engine as the orchestrator hands it over;
\* the wire record grouped under the source account has an amount <= 0 and
\* the one grouped under the destination account an amount >= 0
GeqZero(x) == ~x.nan /\ x.v >= 0
AccountIdOf(wsName) == resolveAccount(wsName, fullConfig).accountId
WireGroupsOf(t) ==
  Group(<< WithAccountId(t, resolveAccount(t.Account, fullConfig)) >>).map
SourceSideTransfer ==
  /\ out # <<>> /\ out[2] = MappedPredicate
  /\ out[1].isTransfer /\ IsFinite(out[1].Amount)
  /\ raw.from # raw.to /\ raw.account = raw.from
C25_TransferNeverFlowsBackwards ==
  SourceSideTransfer =>
    LET groups == WireGroupsOf(out[1])
    IN \A g \in 1..Len(groups) : \A k \in 1..Len(groups[g].entries) :
         LET amount == groups[g].entries[k].import.amount
         IN /\ groups[g].key = AccountIdOf(raw.from) => LeqZero(amount)
            /\ groups[g].key = AccountIdOf(raw.to) => GeqZero(amount)
====
